---- MODULE Spec2Model ----
(***************************************************************************)
(* A model of the synchronisation pipeline of readwise-reader-time-capsule *)
(*   src/src/db/mongo_client.py   MongoDBClient (replace-sync, upsert-sync,*)
(*                                trim-to-size)                            *)
(*   src/src/api/client.py        ReadwiseClient (cursor-paginated fetch)  *)
(*   src/analyze_articles.py      fetch_and_analyze (scoring write)        *)
(*                                                                         *)
(* A collection is the sequence of its records in insertion order, which   *)
(* is the order of MongoDB's _id; a record is identified inside one call   *)
(* by its position in that sequence.                                       *)
(***************************************************************************)
EXTENDS Integers, Sequences, FiniteSets, TLC

VARIABLES
    db,                 \* physical collection name -> sequence of records
    collections,        \* MongoDBClient.collections: logical name -> physical name
    env,                \* the MONGODB_<NAME>_COLLECTION environment settings
    last,               \* history: the last database call, its arguments, its
                        \* result and the collection as it was before the call
    pages,              \* the server's pages for the fetched location
    fetch,              \* fetch_reader_document_list's arguments: location,
                        \* limit (NoLimit: None) and with_html_content
    pc,                 \* where the fetch loop stands: "loop" or "done"
    full_data,          \* the documents collected so far
    next_page_cursor,   \* the cursor of the next request (None: first page)
    requests,           \* history: every request made, with its response
    slept,              \* the sleeps of the latest iteration of the fetch loop:
                        \* the Retry-After advised and the seconds slept
    ex,                 \* ContentExtractor.extract_content: the article, the
                        \* step it stands at, what it returned, the steps tried
    run,                \* a scoring or retention run: the documents it works on,
                        \* what it did with each, what it returned
    calc                \* one call of an analyzer or of the score aggregation:
                        \* its inputs and its result

vars == <<db, collections, env, last, pages, fetch, pc, full_data,
          next_page_cursor, requests, slept, ex, run, calc>>

dbVars == <<db, collections, env, last>>
fetchVars == <<pages, fetch, pc, full_data, next_page_cursor, requests, slept>>
calcVars == <<ex, run, calc>>

---------------------------------------------------------------------------
(* Bounds of the model *)

MaxId == 2          \* document ids are 1..MaxId
MaxTime == 1        \* timestamps of fetched documents are at most MaxTime
MaxDocs == 2        \* length of a document list handed to a sync call
MaxCap == 2         \* max_documents is 0..MaxCap
MaxTrimLen == 3     \* size of the collection a trim run starts from
MaxTrimTime == 1    \* timestamps in that collection are 0..MaxTrimTime (0: none)
MaxPages == 3       \* the server holds 1..MaxPages pages for a location
MaxPageLen == 2     \* a page holds 0..MaxPageLen documents
MaxLimit == 4       \* a given limit is 0..MaxLimit
MaxWait == 1        \* a throttled answer's Retry-After is 0..MaxWait seconds
MaxHalfLives == 2   \* a publication date is up to MaxHalfLives half-lives away

\* Python's None: a null or missing field, an absent cursor
None == 0

\* limit = None: no limit
NoLimit == -1

Min(a, b) == IF a < b THEN a ELSE b

---------------------------------------------------------------------------
(* Documents and records *)

\* A fetched document (src/src/models/page.py Result): created_at is always
\* present, saved_at is optional.
Docs == [id : 1..MaxId, saved_at : 0..MaxTime, created_at : 1..MaxTime]

RECURSIVE SeqsUpTo(_, _)
SeqsUpTo(S, n) ==
    IF n = 0 THEN {<<>>}
    ELSE LET shorter == SeqsUpTo(S, n - 1)
         IN  shorter \cup {Append(s, x) : s \in {t \in shorter : Len(t) = n - 1}, x \in S}

DocLists == SeqsUpTo(Docs, MaxDocs)

\* The record a fetched document becomes when it is inserted: its own fields,
\* and no analysis yet.
ToRecord(doc) ==
    [id |-> doc.id, saved_at |-> doc.saved_at, created_at |-> doc.created_at,
     priority_score |-> None]

\* {'$set': doc} on a stored record: the document's fields overwrite, the
\* other stored fields stay.
SetFields(rec, doc) ==
    [rec EXCEPT !.id = doc.id, !.saved_at = doc.saved_at,
                !.created_at = doc.created_at]

IdSet(s) == {s[i].id : i \in DOMAIN s}

UniqueIds(s) == \A i, j \in DOMAIN s : s[i].id = s[j].id => i = j

PhysNames == {"later", "archive", "later_html", "html_cache"}

\* os.getenv('MONGODB_<NAME>_COLLECTION', <name>): the configured physical
\* name of a logical collection.
Getenv(name) == env[name]

---------------------------------------------------------------------------
(* MongoDBClient.sync_documents: replace-sync *)

\* A faulty variant: every fetched document is inserted, persisted or not.
to_insert_all(existing_ids, documents) == documents

\* to_insert = [doc for doc in documents if doc['id'] not in existing_ids]
to_insert(existing_ids, documents) ==
    SelectSeq(documents, LAMBDA d : d.id \notin existing_ids)

\* to_delete = [doc_id for doc_id in existing_ids if doc_id not in new_ids]
to_delete(existing_ids, new_ids) == existing_ids \ new_ids

\* collection.insert_many(docs): every document is appended, no check on id
insert_many(coll, docs) ==
    coll \o [i \in 1..Len(docs) |-> ToRecord(docs[i])]

\* collection.delete_many({'id': {'$in': ids}})
delete_many(coll, ids) == SelectSeq(coll, LAMBDA r : r.id \notin ids)

\* collection.update_one({'id': doc['id']}, {'$set': doc}, upsert=True):
\* the first record with the id is updated; with none, one is inserted.
update_one_upsert(coll, doc) ==
    IF \E i \in DOMAIN coll : coll[i].id = doc.id
    THEN LET first == CHOOSE i \in DOMAIN coll :
                          /\ coll[i].id = doc.id
                          /\ \A j \in DOMAIN coll : coll[j].id = doc.id => i <= j
         IN  [coll EXCEPT ![first] = SetFields(coll[first], doc)]
    ELSE Append(coll, ToRecord(doc))

\* A faulty variant: the collection is rewritten from the fetched list.
sync_documents_rewrite(coll, documents) ==
    [coll |-> insert_many(<<>>, documents),
     ret  |-> <<Len(to_insert(IdSet(coll), documents)),
                Cardinality(to_delete(IdSet(coll), IdSet(documents)))>>]

\* The collection and the returned (inserted, deleted) of one call.
sync_documents(coll, documents) ==
    LET existing_ids == IdSet(coll)
        new_ids      == IdSet(documents)
        ins          == to_insert(existing_ids, documents)
        del          == to_delete(existing_ids, new_ids)
        inserted     == IF Len(ins) > 0 THEN insert_many(coll, ins) ELSE coll
        deleted      == IF del # {} THEN delete_many(inserted, del) ELSE inserted
    IN  [coll |-> deleted, ret |-> <<Len(ins), Cardinality(del)>>]

---------------------------------------------------------------------------
(* MongoDBClient.sync_documents_with_html: upsert-sync *)

\* f"{location}_html"
HtmlName(location) == IF location = "later" THEN "later_html" ELSE "archive_html"

\* for doc in to_upsert: collection.update_one(..., upsert=True)
RECURSIVE upsert_all(_, _)
upsert_all(coll, documents) ==
    IF documents = <<>> THEN coll
    ELSE upsert_all(update_one_upsert(coll, Head(documents)), Tail(documents))

\* new_docs = sum(1 for doc in documents if doc['id'] not in existing_ids)
new_docs(existing_ids, documents) ==
    Len(SelectSeq(documents, LAMBDA d : d.id \notin existing_ids))

sync_documents_with_html(coll, documents) ==
    [coll |-> upsert_all(coll, documents),
     ret  |-> <<new_docs(IdSet(coll), documents), 0>>]

---------------------------------------------------------------------------
(* MongoDBClient.trim_collection_to_size: eviction *)

\* if collection_name not in self.collections: collection_name = os.getenv(...)
\* collection = self.db[collection_name]
Resolve(collection_name) ==
    IF collection_name \in DOMAIN collections THEN collection_name
    ELSE Getenv(collection_name)

\* A faulty variant: a collection exactly at the cap is trimmed too.
under_limit_strict(total_docs, max_documents) == total_docs < max_documents

\* if total_docs <= max_documents: return 0
under_limit(total_docs, max_documents) == total_docs <= max_documents

\* A faulty variant: one record too few is removed.
docs_to_remove_short(total_docs, max_documents) == total_docs - max_documents - 1

\* docs_to_remove = total_docs - max_documents
docs_to_remove(total_docs, max_documents) == total_docs - max_documents

\* cursor.limit(k) on n matching records: how many come back. A limit of 0
\* is no limit.
Limited(n, k) == IF k = 0 THEN n ELSE Min(k, n)

\* A faulty variant: the sort is descending.
newest_by(P, key, k) ==
    {S \in SUBSET P :
        /\ Cardinality(S) = Limited(Cardinality(P), k)
        /\ \A a \in S, b \in P \ S : key[a] >= key[b]}

\* find(...).sort(key, 1).limit(k) over the records at positions P: the
\* possible results, as sets of positions. Records with equal keys come in
\* an order the server chooses; a null or missing key sorts first.
oldest_by(P, key, k) ==
    {S \in SUBSET P :
        /\ Cardinality(S) = Limited(Cardinality(P), k)
        /\ \A a \in S, b \in P \ S : key[a] <= key[b]}

\* The records left when the records at the positions of S are deleted.
without(coll, S) ==
    LET keep == {i \in DOMAIN coll : i \notin S}
        RECURSIVE build(_)
        build(i) == IF i > Len(coll) THEN <<>>
                    ELSE (IF i \in keep THEN <<coll[i]>> ELSE <<>>) \o build(i + 1)
    IN  build(1)

\* The selections the try block can make: by saved_at among the records that
\* carry one, then by created_at among the records not selected yet.
\* Each is [bySaved, removed].
select_oldest(coll, k) ==
    LET withSaved == {i \in DOMAIN coll : coll[i].saved_at # None}
        savedKey   == [i \in DOMAIN coll |-> coll[i].saved_at]
        createdKey == [i \in DOMAIN coll |-> coll[i].created_at]
    IN  UNION {
            IF Cardinality(S1) < k
            THEN {[bySaved |-> S1, removed |-> S1 \cup S2] :
                    S2 \in oldest_by(DOMAIN coll \ S1, createdKey, k - Cardinality(S1))}
            ELSE {[bySaved |-> S1, removed |-> S1]}
            : S1 \in oldest_by(withSaved, savedKey, k)}

\* The except branch: find({}, {"_id": 1}).sort("_id", 1).limit(docs_to_remove)
select_by_oid(coll, k) ==
    {[bySaved |-> {}, removed |-> {i \in DOMAIN coll : i <= Limited(Len(coll), k)}]}

\* The outcomes of one call: the collection afterwards, the returned count,
\* the positions removed and those among them selected by saved_at. err says
\* that a query of the try block raised.
trim_collection_to_size(coll, max_documents, err) ==
    LET total_docs == Len(coll)
        k          == docs_to_remove(total_docs, max_documents)
    IN  IF under_limit(total_docs, max_documents)
        THEN {[coll |-> coll, ret |-> <<0>>, removed |-> {}, bySaved |-> {}]}
        ELSE {[coll    |-> without(coll, sel.removed),
               ret     |-> <<Cardinality(sel.removed)>>,
               removed |-> sel.removed,
               bySaved |-> sel.bySaved] :
                 sel \in IF err THEN select_by_oid(coll, k) ELSE select_oldest(coll, k)}

---------------------------------------------------------------------------
(* fetch_and_analyze: the write of one analysed article *)

\* The priority_score an analysis stores
Scored == 1

\* The ids the run skips: records that already carry a priority_score.
existing_ids(coll) == {coll[i].id : i \in {j \in DOMAIN coll : coll[j].priority_score # None}}

\* collection.update_one({"id": article.id}, {"$set": clean_doc}, upsert=True)
\* where clean_doc is the fetched document and its analysis.
save_analysis(coll, doc) ==
    LET written == update_one_upsert(coll, doc)
        first   == CHOOSE i \in DOMAIN written :
                       /\ written[i].id = doc.id
                       /\ \A j \in DOMAIN written : written[j].id = doc.id => i <= j
    IN  [written EXCEPT ![first].priority_score = Scored]

---------------------------------------------------------------------------
(* The database calls as actions *)

NoCall ==
    [op |-> "none", name |-> "", coll |-> "", docs |-> <<>>, max |-> 0,
     err |-> FALSE, ret |-> <<>>, pre |-> <<>>, removed |-> {}, bySaved |-> {},
     repeat |-> FALSE, prevRet |-> <<>>]

\* Whether a call repeats the call before it: same operation, same arguments.
\* prevRet is then what the call before it returned.
Repeats(op, name, docs, max) ==
    /\ last.op = op
    /\ last.name = name
    /\ last.docs = docs
    /\ last.max = max

\* mongo_client.sync_documents(location, documents)
SyncDocuments(location, documents) ==
    LET phys == collections[location]
        r    == sync_documents(db[phys], documents)
    IN  /\ db' = [db EXCEPT ![phys] = r.coll]
        /\ last' = [NoCall EXCEPT !.op = "sync_documents", !.name = location,
                        !.coll = phys, !.docs = documents, !.ret = r.ret,
                        !.pre = db[phys],
                        !.repeat = Repeats("sync_documents", location, documents, 0),
                        !.prevRet = IF Repeats("sync_documents", location, documents, 0)
                                    THEN last.ret ELSE <<>>]
        /\ UNCHANGED <<collections, env>>
        /\ UNCHANGED <<fetchVars, calcVars>>

\* mongo_client.sync_documents_with_html(location, documents)
SyncDocumentsWithHtml(location, documents) ==
    LET name == HtmlName(location)
        reg  == IF name \in DOMAIN collections THEN collections
                ELSE collections @@ (name :> Getenv(name))
        phys == reg[name]
        r    == sync_documents_with_html(db[phys], documents)
    IN  /\ collections' = reg
        /\ db' = [db EXCEPT ![phys] = r.coll]
        /\ last' = [NoCall EXCEPT !.op = "sync_documents_with_html", !.name = location,
                        !.coll = phys, !.docs = documents, !.ret = r.ret,
                        !.pre = db[phys],
                        !.repeat = Repeats("sync_documents_with_html", location,
                                           documents, 0),
                        !.prevRet = IF Repeats("sync_documents_with_html", location,
                                               documents, 0)
                                    THEN last.ret ELSE <<>>]
        /\ UNCHANGED env
        /\ UNCHANGED <<fetchVars, calcVars>>

\* mongo_client.trim_collection_to_size(collection_name, max_documents)
Trim(collection_name, max_documents, err) ==
    LET phys == Resolve(collection_name)
    IN  \E r \in trim_collection_to_size(db[phys], max_documents, err) :
            /\ db' = [db EXCEPT ![phys] = r.coll]
            /\ last' = [NoCall EXCEPT !.op = "trim_collection_to_size",
                            !.name = collection_name, !.coll = phys,
                            !.max = max_documents,
                            !.err = err /\ ~under_limit(Len(db[phys]), max_documents),
                            !.ret = r.ret, !.pre = db[phys],
                            !.removed = r.removed, !.bySaved = r.bySaved,
                            !.repeat = Repeats("trim_collection_to_size",
                                               collection_name, <<>>, max_documents),
                            !.prevRet = IF Repeats("trim_collection_to_size",
                                                   collection_name, <<>>, max_documents)
                                        THEN last.ret ELSE <<>>]
            /\ UNCHANGED <<collections, env>>
            /\ UNCHANGED <<fetchVars, calcVars>>

\* One iteration of fetch_and_analyze's loop that reaches the write: the
\* article carries no priority_score yet, its text was extracted and analysed.
AnalyzeArticle(doc) ==
    LET phys == Getenv("later")
    IN  /\ doc.id \notin existing_ids(db[phys])
        /\ db' = [db EXCEPT ![phys] = save_analysis(db[phys], doc)]
        /\ last' = [NoCall EXCEPT !.op = "fetch_and_analyze", !.name = "later",
                        !.coll = phys, !.docs = <<doc>>, !.pre = db[phys]]
        /\ UNCHANGED <<collections, env>>
        /\ UNCHANGED <<fetchVars, calcVars>>

---------------------------------------------------------------------------
(* The specification of the database calls *)

EnvSettings ==
    {[n \in {"later", "archive", "later_html"} |->
         IF n = "later_html" THEN h ELSE n] : h \in {"later_html", "html_cache"}}

\* MongoDBClient.__init__: the two primary collections are registered.
InitClient ==
    /\ env \in EnvSettings
    /\ collections = [n \in {"later", "archive"} |-> env[n]]
    /\ last = NoCall

\* No fetch is running.
InitIdle ==
    /\ pages = <<>>
    /\ fetch = [location |-> "later", limit |-> NoLimit, with_html_content |-> FALSE]
    /\ pc = "done"
    /\ full_data = <<>>
    /\ next_page_cursor = None
    /\ requests = <<>>
    /\ slept = <<>>

\* No extraction, no scoring run and no analyzer call is under way.
InitNoRun ==
    /\ ex = [pc |-> "idle"]
    /\ run = [op |-> "none"]
    /\ calc = [fn |-> "none"]

Init ==
    /\ InitClient
    /\ db = [c \in PhysNames |-> <<>>]
    /\ InitIdle
    /\ InitNoRun

Next ==
    \/ \E documents \in DocLists : SyncDocuments("later", documents)
    \/ \E documents \in DocLists : SyncDocumentsWithHtml("later", documents)
    \/ \E max_documents \in 0..MaxCap, err \in BOOLEAN :
           Trim("later_html", max_documents, err)
    \/ \E doc \in Docs : AnalyzeArticle(doc)

Spec == Init /\ [][Next]_vars

\* The primary collection alone: main's replace-sync and the scoring run.
NextSync ==
    \/ \E documents \in DocLists : SyncDocuments("later", documents)
    \/ \E doc \in Docs : AnalyzeArticle(doc)

SpecSync == Init /\ [][NextSync]_vars

\* The raw-content cache alone: html_fetch's upsert-sync and trim.
NextHtml ==
    \/ \E documents \in DocLists : SyncDocumentsWithHtml("later", documents)
    \/ \E max_documents \in 0..MaxCap, err \in BOOLEAN :
           Trim("later_html", max_documents, err)

SpecHtml == Init /\ [][NextHtml]_vars

---------------------------------------------------------------------------
(* ReadwiseClient: the remote list API and the fetch loop *)

\* The n-th document of the remote list.
RemoteDoc(n) == [id |-> n, saved_at |-> 1, created_at |-> 1]

RECURSIVE Flatten(_)
Flatten(ss) == IF ss = <<>> THEN <<>> ELSE Head(ss) \o Flatten(Tail(ss))

RECURSIVE Sum(_)
Sum(ns) == IF ns = <<>> THEN 0 ELSE Head(ns) + Sum(Tail(ns))

\* The pages of a remote list whose i-th page holds lens[i] documents: the
\* documents of the list, in order, cut into pages.
MakePages(lens) ==
    [i \in DOMAIN lens |->
        [j \in 1..lens[i] |-> RemoteDoc(Sum(SubSeq(lens, 1, i - 1)) + j)]]

\* The server's answer to a request. A cursor names the page after the pages
\* already served; the last page carries no nextPageCursor. A throttled
\* answer carries neither results nor nextPageCursor.
Respond(params, throttled) ==
    IF throttled
    THEN [has_results |-> FALSE, results |-> <<>>, nextPageCursor |-> None]
    ELSE [has_results |-> TRUE,
          results |-> pages[params.pageCursor + 1],
          nextPageCursor |-> IF params.pageCursor + 1 < Len(pages)
                             THEN params.pageCursor + 1 ELSE None]

\* calculate_params: pageCursor is set only for a cursor that is not None.
calculate_params(cursor, location, with_html_content) ==
    [pageCursor |-> cursor, location |-> location,
     withHtmlContent |-> with_html_content]

\* check_if_rate_limited: 'results' not in response.json()
check_if_rate_limited(response) == ~response.has_results

\* time.sleep(int(wait_time_in_seconds) + 3)
sleep_time(retry_after) == retry_after + 3

\* A faulty variant: the page is kept whole.
keep_all(results, collected, limit) == results

\* results = results[:remaining] when the page would overshoot the limit
keep(results, collected, limit) ==
    IF limit # NoLimit /\ collected + Len(results) > limit
    THEN SubSeq(results, 1, limit - collected)
    ELSE results

\* if limit is not None and len(full_data) >= limit: break
limit_reached(collected, limit) == limit # NoLimit /\ collected >= limit

\* A faulty variant: the response's cursor is dropped.
first_page_only(response) == None

\* next_page_cursor = response.json().get('nextPageCursor')
cursor_of(response) == response.nextPageCursor

\* The loop's first test: enough data already, no request is made.
FetchBreak ==
    /\ pc = "loop"
    /\ limit_reached(Len(full_data), fetch.limit)
    /\ pc' = "done"
    /\ UNCHANGED <<pages, fetch, full_data, next_page_cursor, requests, slept>>
    /\ UNCHANGED <<dbVars, calcVars>>

\* One iteration of the loop that requests a page: the request, its one retry
\* when the answer is throttled (after the sleep its Retry-After header
\* advises), the results kept, the next cursor. The answer to the retry is
\* used as it comes: it is not tested for 'results' again.
FetchPage(throttled, throttledAgain, retry_after) ==
    /\ pc = "loop"
    /\ ~limit_reached(Len(full_data), fetch.limit)
    /\ throttledAgain => throttled
    /\ ~throttled => retry_after = 0
    /\ LET params   == calculate_params(next_page_cursor, fetch.location,
                                        fetch.with_html_content)
           answer   == Respond(params, throttled)
           limited  == check_if_rate_limited(answer)
           response == IF limited THEN Respond(params, throttledAgain) ELSE answer
           results  == keep(response.results, Len(full_data), fetch.limit)
           data     == full_data \o results
           entry(r, used) == [params |-> params, collected |-> Len(full_data),
                              response |-> r, used |-> used]
       IN  /\ requests' = requests \o
                  (IF limited THEN <<entry(answer, FALSE), entry(response, TRUE)>>
                   ELSE <<entry(answer, TRUE)>>)
           /\ slept' = IF limited
                       THEN <<[retry_after |-> retry_after,
                               seconds |-> sleep_time(retry_after)]>>
                       ELSE <<>>
           /\ full_data' = data
           /\ IF limit_reached(Len(data), fetch.limit)
              THEN /\ pc' = "done"
                   /\ UNCHANGED next_page_cursor
              ELSE /\ next_page_cursor' = cursor_of(response)
                   /\ pc' = IF cursor_of(response) = None THEN "done" ELSE "loop"
    /\ UNCHANGED <<pages, fetch>>
    /\ UNCHANGED <<dbVars, calcVars>>

PageLens == UNION {[1..k -> 0..MaxPageLen] : k \in 1..MaxPages}

\* fetch_reader_document_list(location, limit, with_html_content) is called:
\* full_data = [], next_page_cursor = None.
InitFetch ==
    /\ InitClient
    /\ env["later_html"] = "later_html"
    /\ db = [c \in PhysNames |-> <<>>]
    /\ \E lens \in PageLens : pages = MakePages(lens)
    /\ fetch \in [location : {"later", "archive"},
                  limit : {NoLimit} \cup (0..MaxLimit),
                  with_html_content : BOOLEAN]
    /\ pc = "loop"
    /\ full_data = <<>>
    /\ next_page_cursor = None
    /\ requests = <<>>
    /\ slept = <<>>
    /\ InitNoRun

NextFetch ==
    \/ FetchBreak
    \/ \E throttled, throttledAgain \in BOOLEAN, retry_after \in 0..MaxWait :
           FetchPage(throttled, throttledAgain, retry_after)

\* The loop runs on its own: it takes its next step whenever it has one.
SpecFetch == InitFetch /\ [][NextFetch]_vars /\ WF_vars(NextFetch)

---------------------------------------------------------------------------
(* Replace-sync: C1 - C4 *)

AfterSync == last.op = "sync_documents"

\* The records of s whose id is in ids, in order.
Restrict(s, ids) == SelectSeq(s, LAMBDA r : r.id \in ids)

\* C1: after sync_documents the persisted id set equals the fetched id set N,
\* the returned inserted count is |N \ E| and the returned deleted count is
\* |E \ N|, E being the id set persisted before the call.
C1_ReplaceSyncCounts ==
    AfterSync =>
        LET E == IdSet(last.pre)
            N == IdSet(last.docs)
        IN  /\ IdSet(db[last.coll]) = N
            /\ last.ret = <<Cardinality(N \ E), Cardinality(E \ N)>>

\* C2: whatever replace-syncs, upsert-syncs, trims and scoring writes have
\* run, no two records of a collection carry the same id.
C2_IdsUnique == \A c \in PhysNames : UniqueIds(db[c])

\* C3: a sync_documents call that repeats the call before it (same location,
\* same fetched list, nothing in between) returns (0, 0) and leaves the
\* collection as it was.
C3_ReplaceSyncIdempotent ==
    (AfterSync /\ last.repeat) =>
        /\ last.ret = <<0, 0>>
        /\ db[last.coll] = last.pre

C3_Witness ==
    /\ AfterSync
    /\ last.repeat
    /\ Len(last.docs) = 2
    /\ last.docs[1].id = last.docs[2].id
    /\ Len(db[last.coll]) = 2

\* C4: sync_documents leaves every record whose id is both persisted before
\* the call and in the fetched list exactly as it was, whatever the fields of
\* the fetched document with that id.
C4_ReplaceSyncFrame ==
    AfterSync =>
        LET E == IdSet(last.pre)
            N == IdSet(last.docs)
        IN  Restrict(db[last.coll], E) = Restrict(last.pre, N)

C4_Witness ==
    /\ AfterSync
    /\ \E i \in DOMAIN last.pre, j \in DOMAIN last.docs :
           /\ last.pre[i].id = last.docs[j].id
           /\ last.pre[i].priority_score # None
           /\ last.pre[i].saved_at # last.docs[j].saved_at
           /\ \E k \in DOMAIN db[last.coll] : db[last.coll][k] = last.pre[i]
    /\ last.ret # <<0, 0>>

---------------------------------------------------------------------------
(* Upsert-sync: C8 *)

AfterUpsert == last.op = "sync_documents_with_html"

\* The last document of docs that carries the id.
LastWithId(docs, id) ==
    docs[CHOOSE i \in DOMAIN docs :
             /\ docs[i].id = id
             /\ \A j \in DOMAIN docs : docs[j].id = id => j <= i]

\* C8: sync_documents_with_html writes every fetched document by id, deletes
\* no record whose id is absent from the fetched list, and returns
\* (newCount, 0), newCount being the number of ids that were not in the
\* collection before the call and are in it afterwards.
C8_UpsertSync ==
    AfterUpsert =>
        LET post == db[last.coll]
            E    == IdSet(last.pre)
            N    == IdSet(last.docs)
        IN  /\ \A id \in N : \E i \in DOMAIN post :
                   /\ post[i].id = id
                   /\ SetFields(post[i], LastWithId(last.docs, id)) = post[i]
            /\ Restrict(post, E \ N) = Restrict(last.pre, E \ N)
            /\ last.ret = <<Cardinality(IdSet(post) \ E), 0>>

---------------------------------------------------------------------------
(* The specification of a trim run: a populated raw-content cache, trimmed *)

TrimStamps == (0..MaxTrimTime) \X (0..MaxTrimTime)

\* The collections a trim run starts from: up to MaxTrimLen records with
\* distinct ids, each with any saved_at and created_at, null included.
TrimColls ==
    UNION {{[i \in 1..n |-> [id |-> i, saved_at |-> f[i][1], created_at |-> f[i][2],
                             priority_score |-> None]] :
              f \in [1..n -> TrimStamps]} : n \in 0..MaxTrimLen}

InitTrim ==
    /\ InitClient
    /\ \E coll \in TrimColls :
           db = [c \in PhysNames |-> IF c = Getenv("later_html") THEN coll ELSE <<>>]
    /\ InitIdle
    /\ InitNoRun

NextTrim ==
    \E max_documents \in 0..MaxCap, err \in BOOLEAN :
        Trim("later_html", max_documents, err)

SpecTrim == InitTrim /\ [][NextTrim]_vars

---------------------------------------------------------------------------
(* Eviction: C5 - C7 *)

AfterTrim == last.op = "trim_collection_to_size"

\* C5: after trim_collection_to_size(collection, C) the collection holds at
\* most C records; a collection that held at most C before the call is left
\* as it was and 0 is returned.
C5_EvictionBound ==
    AfterTrim =>
        /\ Len(db[last.coll]) <= last.max
        /\ Len(last.pre) <= last.max =>
               (last.ret = <<0>> /\ db[last.coll] = last.pre)

C5_Witness ==
    /\ AfterTrim
    /\ last.max > 0
    /\ Len(last.pre) > last.max + 1
    /\ Len(db[last.coll]) = last.max

\* The positions of the records of s that carry a saved_at.
WithSaved(s) == {i \in DOMAIN s : s[i].saved_at # None}

\* The removed records are the required number of oldest ones: by saved_at
\* among the records that carry one and, only when those are too few, all of
\* them and the rest by created_at among the others.
OldestRemoved ==
    LET pre    == last.pre
        need   == Len(pre) - last.max
        saved  == WithSaved(pre)
        others == DOMAIN pre \ saved
        rest   == last.removed \ saved
    IN  /\ \A a \in last.removed \cap saved, b \in saved \ last.removed :
               pre[a].saved_at <= pre[b].saved_at
        /\ IF Cardinality(saved) >= need
           THEN last.removed \subseteq saved
           ELSE /\ saved \subseteq last.removed
                /\ \A a \in rest, b \in others \ rest :
                       pre[a].created_at <= pre[b].created_at

\* Exactly count - maxDocuments records are removed, and that number returned.
RemovedCount ==
    /\ Cardinality(last.removed) = Len(last.pre) - last.max
    /\ last.ret = <<Len(last.pre) - last.max>>
    /\ db[last.coll] = without(last.pre, last.removed)

C7_EvictionIdempotent ==
    (AfterTrim /\ last.repeat) =>
        /\ last.ret = <<0>>
        /\ db[last.coll] = last.pre

C7_Witness ==
    /\ AfterTrim
    /\ last.repeat
    /\ last.prevRet = <<2>>
    /\ Len(db[last.coll]) = last.max
    /\ last.max > 0

---------------------------------------------------------------------------
(* Fetch: C9, C10 *)

\* The responses the loop used, one per iteration, in order.
Used == SelectSeq(requests, LAMBDA r : r.used)

\* The results of the responses the loop used, in order.
Served == Flatten([i \in DOMAIN Used |-> Used[i].response.results])

\* C9: with a limit, fetch_reader_document_list holds at most limit
\* documents; of a page that would overshoot only the first limit - collected
\* documents are kept; no request is made once the collected total has
\* reached the limit (none at all when the limit is 0).
C9_FetchLimit ==
    fetch.limit # NoLimit =>
        /\ Len(full_data) <= fetch.limit
        /\ full_data = SubSeq(Served, 1, Min(fetch.limit, Len(Served)))
        /\ \A i \in DOMAIN requests : requests[i].collected < fetch.limit
        /\ fetch.limit = 0 => requests = <<>>
        /\ (pc = "loop" /\ requests # <<>>) => Len(full_data) < fetch.limit

C9_Witness ==
    /\ pc = "done"
    /\ fetch.limit # NoLimit
    /\ Len(full_data) = fetch.limit
    /\ Len(Used) >= 2
    /\ Len(Served) > fetch.limit
    /\ Used[Len(Used)].response.nextPageCursor # None

\* Without a limit: the first request carries no cursor, each following one
\* the nextPageCursor of the response before it; the documents held are the
\* results of the responses used, in order; the loop ends with the first
\* response whose nextPageCursor is empty, and when no answer was throttled
\* twice that is the whole remote list.
PaginationSafe ==
    fetch.limit = NoLimit =>
        /\ \A i \in DOMAIN Used :
               Used[i].params.pageCursor =
                   IF i = 1 THEN None ELSE Used[i - 1].response.nextPageCursor
        /\ \A i \in DOMAIN Used :
               i < Len(Used) => Used[i].response.nextPageCursor # None
        /\ full_data = Served
        /\ pc = "done" =>
               /\ Used # <<>>
               /\ Used[Len(Used)].response.nextPageCursor = None
               /\ (\A i \in DOMAIN Used : Used[i].response.has_results)
                      => full_data = Flatten(pages)
        /\ (pc = "loop" /\ Used # <<>>) =>
               /\ Used[Len(Used)].response.nextPageCursor # None
               /\ next_page_cursor = Used[Len(Used)].response.nextPageCursor

\* C10: without a limit, fetch_reader_document_list requests the first page
\* with no cursor and each following page with the nextPageCursor of the
\* previous response, returns the in-order concatenation of the results of
\* every page up to and including the first whose nextPageCursor is empty,
\* and terminates, the server's pages being finitely many.
C10_FetchPagination ==
    /\ []PaginationSafe
    /\ (fetch.limit = NoLimit) ~> (pc = "done")

C10_Witness ==
    /\ pc = "done"
    /\ fetch.limit = NoLimit
    /\ Len(Used) = 3
    /\ Len(requests) > Len(Used)
    /\ Len(full_data) >= 4
    /\ full_data = Flatten(pages)

---------------------------------------------------------------------------
(* Rate limiting: C11 *)

\* The answers that lacked 'results' and were used all the same: the answers
\* to a retry.
ThrottledTwice == {i \in DOMAIN requests :
                      requests[i].used /\ ~requests[i].response.has_results}

\* C11: when a page response lacks results, the fetch sleeps for the advised
\* wait plus 3 seconds and re-issues the same request (same cursor, location
\* and flags) exactly once; if the retried response lacks results too, the
\* fetch fails with an error instead of returning a result list.
C11_RateLimitHandling ==
    /\ \A i \in DOMAIN requests :
           ~requests[i].used =>
               /\ ~requests[i].response.has_results
               /\ i < Len(requests)
               /\ requests[i + 1].params = requests[i].params
               /\ requests[i + 1].used
    /\ \A i \in DOMAIN slept : slept[i].seconds = slept[i].retry_after + 3
    /\ Len(slept) <= 1
    /\ ThrottledTwice # {} => pc # "done"

---------------------------------------------------------------------------
(* ContentExtractor.extract_content: the fallback chain *)

\* An Optional[str] is a sequence of at most one string: <<>> is None.
NoText == <<>>

\* Python's truth of an Optional[str]: neither None nor the empty string.
Truthy(t) == t # NoText /\ t[1] # ""

\* The articles handed to the extractor: each of the four sources is None,
\* empty or populated.
Articles ==
    [html_content : {NoText, <<"">>, <<"<html>">>},
     source_url   : {NoText, <<"">>, <<"http://a">>},
     content      : {NoText, <<"">>, <<"content">>},
     summary      : {NoText, <<"">>, <<"summary">>}]

\* What trafilatura.extract does with a page: it raises, or returns None, an
\* empty string or the text.
Extractions(text) ==
    {[raises |-> TRUE, text |-> NoText]} \cup
    {[raises |-> FALSE, text |-> t] : t \in {NoText, <<"">>, <<text>>}}

\* What the GET of the source URL does: an answer, a timeout
\* (httpx.TimeoutException), an error status (httpx.HTTPStatusError from
\* raise_for_status) or another failure of the network.
NetOutcomes == {"ok", "timeout", "status", "error"}

\* _fetch_from_url: the text extracted from the answer; None for a timeout,
\* an error status and any other exception, that of trafilatura included.
fetch_from_url(net, parsed) ==
    IF net = "ok" /\ ~parsed.raises THEN [raises |-> FALSE, text |-> parsed.text]
    ELSE [raises |-> FALSE, text |-> NoText]

\* A faulty variant: an exception of the step leaves extract_content.
step_unguarded(outcome) == outcome

\* try: ... except Exception: logger.warning(...): the step's text, None when
\* it raised.
step_guarded(outcome) ==
    IF outcome.raises THEN [raises |-> FALSE, text |-> NoText] ELSE outcome

\* A faulty variant: the summary is consulted before the content field.
next_step_summary_first(name) ==
    CASE name = "html"    -> "url"
      [] name = "url"     -> "summary"
      [] name = "summary" -> "content"
      [] name = "content" -> "done"

\* The order of the strategies in extract_content.
next_step(name) ==
    CASE name = "html"    -> "url"
      [] name = "url"     -> "content"
      [] name = "content" -> "summary"
      [] name = "summary" -> "done"

\* One step of the chain has been gone through: the step is logged with the
\* text it yielded when it was attempted, the call returns that text when it
\* is not empty, raises when the step raised, and goes on to the next step
\* otherwise.
Step(attempted, name, outcome) ==
    ex' = [ex EXCEPT
              !.tried  = IF attempted
                         THEN Append(@, [step |-> name, text |-> outcome.text])
                         ELSE @,
              !.raised = attempted /\ outcome.raises,
              !.ret    = IF attempted /\ ~outcome.raises /\ Truthy(outcome.text)
                         THEN outcome.text ELSE NoText,
              !.pc     = IF attempted /\ (outcome.raises \/ Truthy(outcome.text))
                         THEN "done" ELSE next_step(name)]

\* Strategy 0: trafilatura.extract(article.html_content) when there is any.
ExtractHtml(parsed) ==
    /\ ex.pc = "html"
    /\ LET attempted == Truthy(ex.article.html_content)
       IN  /\ ~attempted => parsed = [raises |-> FALSE, text |-> NoText]
           /\ Step(attempted, "html", step_guarded(parsed))
    /\ UNCHANGED <<dbVars, fetchVars, run, calc>>

\* Strategy 1: _fetch_from_url(article.source_url) when there is a URL.
ExtractUrl(net, parsed) ==
    /\ ex.pc = "url"
    /\ LET attempted == Truthy(ex.article.source_url)
       IN  /\ ~attempted => (net = "timeout" /\ parsed.text = NoText)
           /\ (net # "ok" \/ ~attempted) => ~parsed.raises /\ parsed.text = NoText
           /\ Step(attempted, "url", step_guarded(fetch_from_url(net, parsed)))
    /\ UNCHANGED <<dbVars, fetchVars, run, calc>>

\* Strategy 2: the content field.
ExtractContentField ==
    /\ ex.pc = "content"
    /\ Step(Truthy(ex.article.content), "content",
            [raises |-> FALSE, text |-> ex.article.content])
    /\ UNCHANGED <<dbVars, fetchVars, run, calc>>

\* Strategy 3: the summary field; return None when it is empty too.
ExtractSummary ==
    /\ ex.pc = "summary"
    /\ Step(Truthy(ex.article.summary), "summary",
            [raises |-> FALSE, text |-> ex.article.summary])
    /\ UNCHANGED <<dbVars, fetchVars, run, calc>>

\* extract_content(article) is called.
InitExtract ==
    /\ InitClient
    /\ env["later_html"] = "later_html"
    /\ db = [c \in PhysNames |-> <<>>]
    /\ InitIdle
    /\ \E article \in Articles :
           ex = [article |-> article, pc |-> "html", ret |-> NoText,
                 raised |-> FALSE, tried |-> <<>>]
    /\ run = [op |-> "none"]
    /\ calc = [fn |-> "none"]

NextExtract ==
    \/ \E parsed \in Extractions("html text") : ExtractHtml(parsed)
    \/ \E net \in NetOutcomes, parsed \in Extractions("page text") :
           ExtractUrl(net, parsed)
    \/ ExtractContentField
    \/ ExtractSummary

\* The call runs to its end.
SpecExtract == InitExtract /\ [][NextExtract]_vars /\ WF_vars(NextExtract)

---------------------------------------------------------------------------
(* Extraction: C12, C13 *)

\* The place of a strategy in the documented order.
Rank(name) ==
    CASE name = "html" -> 1 [] name = "url" -> 2
      [] name = "content" -> 3 [] name = "summary" -> 4

\* The source an attempt of a strategy reads.
SourceOf(name) ==
    CASE name = "html"    -> ex.article.html_content
      [] name = "url"     -> ex.article.source_url
      [] name = "content" -> ex.article.content
      [] name = "summary" -> ex.article.summary

Strategies == {"html", "url", "content", "summary"}

TriedSteps == {ex.tried[i].step : i \in DOMAIN ex.tried}

\* C12: extract_content tries cached HTML, the HTTP fetch of the source URL,
\* the content field and the summary field in this order and returns the
\* text of the first step that yields a non-empty one, attempting no later
\* step; an article whose URL fetch yields nothing and whose content field
\* is populated yields the content field and its summary is never used; an
\* article whose cached HTML yields text causes no HTTP fetch.
C12_ExtractionOrder ==
    /\ \A i, j \in DOMAIN ex.tried :
           i < j => Rank(ex.tried[i].step) < Rank(ex.tried[j].step)
    /\ \A i \in DOMAIN ex.tried :
           /\ Truthy(SourceOf(ex.tried[i].step))
           /\ i < Len(ex.tried) => ~Truthy(ex.tried[i].text)
           /\ Truthy(ex.tried[i].text) => (ex.pc = "done" /\ ex.ret = ex.tried[i].text)
    /\ (ex.pc = "done" /\ ~ex.raised) =>
           /\ Truthy(ex.ret) =>
                  (ex.tried # <<>> /\ ex.ret = ex.tried[Len(ex.tried)].text)
           /\ \A name \in Strategies :
                  (/\ Truthy(SourceOf(name))
                   /\ \A i \in DOMAIN ex.tried :
                          Truthy(ex.tried[i].text) => Rank(name) < Rank(ex.tried[i].step))
                      => name \in TriedSteps
           /\ (\E i \in DOMAIN ex.tried :
                   ex.tried[i].step = "url" /\ ~Truthy(ex.tried[i].text))
               /\ Truthy(ex.article.content)
                   => (ex.ret = ex.article.content /\ "summary" \notin TriedSteps)
           /\ (\E i \in DOMAIN ex.tried :
                   ex.tried[i].step = "html" /\ Truthy(ex.tried[i].text))
                   => "url" \notin TriedSteps

C12_Witness ==
    /\ ex.pc = "done"
    /\ Len(ex.tried) = 3
    /\ ex.tried[1].step = "html"
    /\ ex.tried[2].step = "url"
    /\ ex.ret = <<"content">>
    /\ Truthy(ex.article.summary)

\* A call that has returned None found nothing in any of the four steps:
\* each step either had no source to read or was tried and yielded nothing.
NothingYielded ==
    \A name \in Strategies :
        Truthy(SourceOf(name)) =>
            \E i \in DOMAIN ex.tried :
                ex.tried[i].step = name /\ ~Truthy(ex.tried[i].text)

\* C13: extract_content never raises to its caller, whichever steps fail
\* (HTML extraction error, timeout, HTTP error status, other network
\* failure), always returns, and returns None if and only if all four steps
\* yield nothing.
C13_ExtractionTolerance ==
    /\ [](ex.pc # "idle" => ~ex.raised)
    /\ [](ex.pc = "done" => (~Truthy(ex.ret) <=> NothingYielded))
    /\ [](ex.pc = "done" => (~Truthy(ex.ret) => ex.ret = NoText))
    /\ (ex.pc # "idle") ~> (ex.pc = "done")

C13_Witness ==
    /\ ex.pc = "done"
    /\ ex.ret = NoText
    /\ Len(ex.tried) = 2
    /\ ex.tried[1].step = "html"
    /\ ex.tried[2].step = "url"
    /\ ex.article.content = <<"">>
    /\ ex.article.summary = NoText

---------------------------------------------------------------------------
(* The score aggregation of fetch_and_analyze and calculate_priority_scores *)

\* Numbers are fixed-point: a component score and a weight are counted in
\* hundredths (7.0 is 700, 0.25 is 25), a priority score in tenths (61.5 is
\* 615).

\* A faulty variant: quality weighs 0.35.
COMPONENT_WEIGHTS_heavy ==
    [quality |-> 35, information_density |-> 15, readability |-> 15,
     topic_relevance |-> 20, freshness |-> 10, engagement_potential |-> 15]

\* analyze_articles.COMPONENT_WEIGHTS
COMPONENT_WEIGHTS ==
    [quality |-> 25, information_density |-> 15, readability |-> 15,
     topic_relevance |-> 20, freshness |-> 10, engagement_potential |-> 15]

\* PrioritizationService.component_weights
component_weights ==
    [quality |-> 25, information_density |-> 15, readability |-> 15,
     topic_relevance |-> 20, freshness |-> 10, engagement_potential |-> 15]

\* The weights a pipeline aggregates with.
WeightsOf(pipeline) ==
    IF pipeline = "fetch_and_analyze" THEN COMPONENT_WEIGHTS ELSE component_weights

RECURSIVE SumOver(_, _)
SumOver(f, keys) ==
    IF keys = {} THEN 0
    ELSE LET k == CHOOSE x \in keys : TRUE
         IN  f[k] + SumOver(f, keys \ {k})

\* sum(score * weights[component] for component, score in
\* component_scores.items()) * 10, in thousandths
weighted_sum(component_scores, weights) ==
    SumOver([c \in DOMAIN component_scores |-> component_scores[c] * weights[c]],
            DOMAIN component_scores)

\* round(x, 1) of a value given in thousandths, in tenths. The value is a
\* binary float that carries the rounding errors of the sum, so that half a
\* tenth can go either way.
round1(thousandths) ==
    LET q == thousandths \div 100
        r == thousandths % 100
    IN  IF r < 50 THEN {q} ELSE IF r > 50 THEN {q + 1} ELSE {q, q + 1}

\* The priority scores the aggregation can give for the component scores.
priority_scores(component_scores, weights) ==
    round1(weighted_sum(component_scores, weights))

\* The aggregation is applied to the component scores of calc.
Aggregate ==
    /\ calc.fn = "aggregate"
    /\ calc.out = <<>>
    /\ \E p \in priority_scores(calc.component_scores, WeightsOf(calc.pipeline)) :
           calc' = [calc EXCEPT !.out = <<p>>]
    /\ UNCHANGED <<dbVars, fetchVars, ex, run>>

\* The component scores the aggregation is tried on: for each component its
\* least and greatest value, one in between and one that brings the sum to
\* half a tenth.
ScoreGrid ==
    [quality              : {100, 700, 1000},
     information_density  : {100, 600, 1000},
     readability          : {100, 250, 500, 1000},
     topic_relevance      : {100, 800, 1000},
     freshness            : {100, 400, 1000},
     engagement_potential : {100, 500, 1000}]

InitAggregate ==
    /\ InitClient
    /\ env["later_html"] = "later_html"
    /\ db = [c \in PhysNames |-> <<>>]
    /\ InitIdle
    /\ ex = [pc |-> "idle"]
    /\ run = [op |-> "none"]
    /\ \E cs \in ScoreGrid, pipeline \in {"fetch_and_analyze", "calculate_priority_scores"} :
           calc = [fn |-> "aggregate", pipeline |-> pipeline,
                   component_scores |-> cs, out |-> <<>>]

SpecAggregate == InitAggregate /\ [][Aggregate]_vars

---------------------------------------------------------------------------
(* Weights: C15 *)

Components ==
    {"quality", "information_density", "readability", "topic_relevance",
     "freshness", "engagement_potential"}

\* C15: the six weights of COMPONENT_WEIGHTS and of component_weights sum to
\* exactly 1.0, and for six component scores each in [1,10] the priority
\* score round(sum(weight_i * score_i) * 10, 1) lies in [10,100]; quality
\* 7.0, information_density 6.0, readability 5.0, topic_relevance 8.0,
\* freshness 4.0, engagement_potential 5.0 give 61.5.
C15_WeightNormalization ==
    /\ DOMAIN COMPONENT_WEIGHTS = Components
    /\ DOMAIN component_weights = Components
    /\ SumOver(COMPONENT_WEIGHTS, Components) = 100
    /\ SumOver(component_weights, Components) = 100
    /\ (calc.fn = "aggregate" /\ calc.out # <<>>) =>
           /\ calc.out[1] >= 100
           /\ calc.out[1] <= 1000
           /\ calc.component_scores =
                  [quality |-> 700, information_density |-> 600, readability |-> 500,
                   topic_relevance |-> 800, freshness |-> 400,
                   engagement_potential |-> 500]
                  => calc.out[1] = 615

C15_Witness ==
    /\ calc.fn = "aggregate"
    /\ calc.out = <<615>>
    /\ calc.pipeline = "calculate_priority_scores"
    /\ calc.component_scores.quality = 700
    /\ calc.component_scores.topic_relevance = 800

---------------------------------------------------------------------------
(* The five analyzers *)

\* A text is given by what the analyzers ask of it first: whether it is None,
\* the length of content.strip() and the length of the white space around
\* that. What the analyzers measure in it is given with each call.
Texts ==
    {[none |-> TRUE, len |-> 0, pad |-> 0]} \cup
    [none : {FALSE}, len : {0, 50, 99, 100, 150}, pad : {0, 60}]

\* len(content)
RawLen(text) == text.len + text.pad

\* A faulty variant: the white space around the text is counted.
too_short_unstripped(text) == text.none \/ RawLen(text) = 0 \/ RawLen(text) < 100

\* not content or len(content.strip()) < 100
too_short(text) == text.none \/ RawLen(text) = 0 \/ text.len < 100

\* n / d rounded to an integer, as round() does on a binary float: a value
\* half way between two integers can go either way.
round_div(n, d) ==
    LET q == n \div d
        r == n % d
    IN  IF 2 * r < d THEN {q} ELSE IF 2 * r > d THEN {q + 1} ELSE {q, q + 1}

Max(a, b) == IF a > b THEN a ELSE b

\* ReadabilityAnalyzer._determine_complexity_level; the grades in hundredths
complexity_level(flesch, smog, coleman, ari) ==
    LET flesch_grade == IF flesch >= 9000 THEN 500
                        ELSE IF flesch >= 8000 THEN 600
                        ELSE IF flesch >= 7000 THEN 700
                        ELSE IF flesch >= 6000 THEN 850
                        ELSE IF flesch >= 5000 THEN 1050
                        ELSE IF flesch >= 3000 THEN 1300
                        ELSE 1500
        grade4 == flesch_grade + smog + coleman + ari
    IN  IF grade4 < 4 * 800 THEN "Basic"
        ELSE IF grade4 < 4 * 1200 THEN "Intermediate"
        ELSE IF grade4 < 4 * 1600 THEN "Advanced"
        ELSE "Expert"

\* ReadabilityAnalyzer._calculate_normalized_score followed by round(..., 2):
\* the four indices and the results in hundredths. complexity4 is four times
\* avg_complexity.
readability_score(flesch, smog, coleman, ari) ==
    LET normalized_flesch  == 10000 - flesch
        normalized_smog    == Min(10000, smog * 5)
        normalized_coleman == Min(10000, coleman * 5)
        normalized_ari     == Min(10000, ari * 5)
        complexity4 == normalized_flesch + normalized_smog + normalized_coleman
                       + normalized_ari
    IN  IF complexity4 < 4 * 2500
        THEN {100 + x : x \in round_div(3 * complexity4, 100)}
        ELSE IF complexity4 < 4 * 7500
        THEN {400 + x : x \in round_div(3 * (complexity4 - 10000), 200)}
        ELSE {700 + x : x \in round_div(3 * (complexity4 - 30000), 100)}

\* ReadabilityAnalyzer.analyze: the bundles it can return for a text on which
\* textstat gives the four indices m.
readability_analyze(text, m) ==
    IF too_short(text)
    THEN {[flesch_reading_ease |-> 0, smog_index |-> 0, coleman_liau_index |-> 0,
           automated_readability_index |-> 0, complexity_level |-> "Unknown",
           normalized_score |-> 500]}
    ELSE {[flesch_reading_ease |-> m.flesch, smog_index |-> m.smog,
           coleman_liau_index |-> m.coleman,
           automated_readability_index |-> m.ari,
           complexity_level |-> complexity_level(m.flesch, m.smog, m.coleman, m.ari),
           normalized_score |-> n] :
             n \in readability_score(m.flesch, m.smog, m.coleman, m.ari)}

\* What textstat can give: the Flesch reading ease is above 100 for very
\* plain text and below 0 for very hard text, the grade indices of
\* Coleman-Liau and ARI go below 0.
ReadabilityInputs ==
    [flesch : {-5000, 3000, 6000, 12000}, smog : {0, 1000, 2500},
     coleman : {-500, 1000, 2500}, ari : {-500, 1000, 2500}]

\* FreshnessAnalyzer.decay_rates.get(category, decay_rates["default"])
decay_rate(category) ==
    CASE category = "news" -> 3
      [] category = "technology" -> 90
      [] category = "science" -> 365
      [] category = "evergreen" -> 1095
      [] category = "reference" -> 1825
      [] OTHER -> 180

RECURSIVE Pow2(_)
Pow2(n) == IF n = 0 THEN 1 ELSE 2 * Pow2(n - 1)

\* FreshnessAnalyzer._calculate_normalized_score followed by round(..., 2),
\* in hundredths, for an age of half_lives times the decay rate:
\* exp(-log(2) * age_days / decay_rate) is then 2 ^ -half_lives.
freshness_score(half_lives, temporal_references_count) ==
    IF half_lives = 0
    THEN {500 + Min(300, temporal_references_count * 30)}
    ELSE LET temporal == 18 * Min(10, temporal_references_count)
         IN  {100 + temporal + x :
                 x \in IF half_lives > 0 THEN round_div(720, Pow2(half_lives))
                       ELSE {720 * Pow2(-half_lives)}}

\* FreshnessAnalyzer.analyze for a text with the given number of temporal
\* references, published half_lives * decay_rate days before current_date
\* (after it when negative); no publication date leaves age_days at 0.
freshness_analyze(text, m) ==
    LET rate     == decay_rate(m.category)
        age_days == IF m.dated THEN m.half_lives * rate ELSE 0
    IN  IF too_short(text)
        THEN {[age_days |-> 0, temporal_references_count |-> 0, decay_rate |-> rate,
               is_recent |-> FALSE, normalized_score |-> 500]}
        ELSE {[age_days |-> age_days,
               temporal_references_count |-> m.temporal_references_count,
               decay_rate |-> rate,
               is_recent |-> m.dated /\ age_days <= 7,
               normalized_score |-> n] :
                 n \in freshness_score(IF m.dated THEN m.half_lives ELSE 0,
                                       m.temporal_references_count)}

\* The dates and categories the freshness analyzer is called with: no date,
\* or a date up to MaxHalfLives half-lives before or after the current date.
FreshnessInputs ==
    [dated : BOOLEAN, half_lives : -MaxHalfLives..MaxHalfLives,
     temporal_references_count : {0, 5, 12},
     category : {"news", "technology", "article"}]

\* InformationDensityAnalyzer._calculate_normalized_score followed by
\* round(..., 2): the three densities and the result in hundredths.
information_density_score(lexical_diversity, fact_density, concept_density) ==
    {100 + x : x \in round_div(9 * (40 * lexical_diversity + 40 * fact_density
                                    + 20 * concept_density), 100)}

\* InformationDensityAnalyzer.analyze
information_density_analyze(text, m) ==
    IF too_short(text)
    THEN {[lexical_diversity |-> 0, fact_density |-> 0, concept_density |-> 0,
           key_concepts |-> <<>>, normalized_score |-> 500]}
    ELSE {[lexical_diversity |-> m.lexical_diversity, fact_density |-> m.fact_density,
           concept_density |-> m.concept_density, key_concepts |-> m.key_concepts,
           normalized_score |-> n] :
             n \in information_density_score(m.lexical_diversity, m.fact_density,
                                             m.concept_density)}

\* The densities are ratios of counts (unique to all words, factual to all
\* sentences, repeated to unique words, capped at 1.0): they lie in [0, 1].
InformationDensityInputs ==
    [lexical_diversity : {0, 33, 100}, fact_density : {0, 50, 100},
     concept_density : {0, 25, 100}, key_concepts : {<<>>, <<"data">>}]

\* EngagementAnalyzer._calculate_normalized_score followed by round(..., 2)
engagement_score(emotional_score, narrative_score, visual_score, interactive_score) ==
    {100 + x : x \in round_div(9 * (35 * emotional_score + 25 * narrative_score
                                    + 20 * visual_score + 20 * interactive_score),
                               100)}

\* EngagementAnalyzer.analyze
engagement_analyze(text, m) ==
    IF too_short(text)
    THEN {[emotional_score |-> 0, narrative_score |-> 0, visual_score |-> 0,
           interactive_score |-> 0,
           emotion_counts |-> [positive |-> 0, negative |-> 0, surprise |-> 0],
           normalized_score |-> 500, language |-> "unknown"]}
    ELSE {[emotional_score |-> m.emotional_score, narrative_score |-> m.narrative_score,
           visual_score |-> m.visual_score, interactive_score |-> m.interactive_score,
           emotion_counts |-> m.emotion_counts,
           normalized_score |-> n, language |-> m.language] :
             n \in engagement_score(m.emotional_score, m.narrative_score,
                                    m.visual_score, m.interactive_score)}

\* The four partial scores are capped densities and a share of categories:
\* they lie in [0, 1].
EngagementInputs ==
    [emotional_score : {0, 45, 100}, narrative_score : {0, 100},
     visual_score : {0, 100}, interactive_score : {0, 50, 100},
     emotion_counts : {[positive |-> 0, negative |-> 0, surprise |-> 0],
                       [positive |-> 2, negative |-> 1, surprise |-> 0]},
     language : {"en", "pl"}]

\* The greatest of the values of a non-empty dict of numbers.
MaxValue(f) == CHOOSE v \in {f[k] : k \in DOMAIN f} : \A k \in DOMAIN f : f[k] <= v

\* TopicRelevanceAnalyzer._calculate_normalized_score followed by
\* round(..., 2): match scores and the result in hundredths.
topic_relevance_score(topic_matches) ==
    IF DOMAIN topic_matches = {} THEN {500}
    ELSE LET max_score == MaxValue(topic_matches)
             significant_topics ==
                 Cardinality({t \in DOMAIN topic_matches : topic_matches[t] > 100})
             diversity_normalized == Min(1000, significant_topics * 200)
         IN  {Max(100, Min(1000, x)) :
                 x \in round_div(7 * Min(2000, max_score) + 6 * diversity_normalized,
                                 20)}

\* TopicRelevanceAnalyzer._get_top_topics: the topics by descending match
\* score, at most limit of them.
top_topics(topic_matches, limit) ==
    LET n == Min(limit, Cardinality(DOMAIN topic_matches))
    IN  {q \in [1..n -> DOMAIN topic_matches] :
            /\ \A i, j \in 1..n : i < j =>
                   (q[i] # q[j] /\ topic_matches[q[i]] >= topic_matches[q[j]])
            /\ \A t \in DOMAIN topic_matches :
                   (\A i \in 1..n : q[i] # t) =>
                       \A i \in 1..n : topic_matches[q[i]] >= topic_matches[t]}

\* TopicRelevanceAnalyzer.analyze
topic_relevance_analyze(text, m) ==
    IF too_short(text)
    THEN {[top_topics |-> <<>>, topic_matches |-> <<>>, normalized_score |-> 500]}
    ELSE {[top_topics |-> q, topic_matches |-> m, normalized_score |-> n] :
             q \in top_topics(m, 3), n \in topic_relevance_score(m)}

\* The match scores of a text: a positive score for each topic it matches.
TopicInputs ==
    UNION {[T -> {50, 450, 2500}] : T \in SUBSET {"technology", "science"}}

Analyzers ==
    {"readability", "information_density", "topic_relevance", "freshness",
     "engagement_potential"}

\* What an analyzer is given besides the text.
InputsOf(analyzer) ==
    CASE analyzer = "readability"          -> ReadabilityInputs
      [] analyzer = "information_density"  -> InformationDensityInputs
      [] analyzer = "topic_relevance"      -> TopicInputs
      [] analyzer = "freshness"            -> FreshnessInputs
      [] analyzer = "engagement_potential" -> EngagementInputs

\* <analyzer>.analyze(content, ...)
analyze(analyzer, text, m) ==
    CASE analyzer = "readability"          -> readability_analyze(text, m)
      [] analyzer = "information_density"  -> information_density_analyze(text, m)
      [] analyzer = "topic_relevance"      -> topic_relevance_analyze(text, m)
      [] analyzer = "freshness"            -> freshness_analyze(text, m)
      [] analyzer = "engagement_potential" -> engagement_analyze(text, m)

\* The analyzer of calc is applied to its text.
Analyze ==
    /\ calc.fn = "analyze"
    /\ calc.out = <<>>
    /\ \E bundle \in analyze(calc.analyzer, calc.text, calc.measured) :
           calc' = [calc EXCEPT !.out = <<bundle>>]
    /\ UNCHANGED <<dbVars, fetchVars, ex, run>>

InitAnalyze ==
    /\ InitClient
    /\ env["later_html"] = "later_html"
    /\ db = [c \in PhysNames |-> <<>>]
    /\ InitIdle
    /\ ex = [pc |-> "idle"]
    /\ run = [op |-> "none"]
    /\ \E analyzer \in Analyzers : \E text \in Texts, m \in InputsOf(analyzer) :
           calc = [fn |-> "analyze", analyzer |-> analyzer, text |-> text,
                   measured |-> m, out |-> <<>>]

SpecAnalyze == InitAnalyze /\ [][Analyze]_vars

---------------------------------------------------------------------------
(* Analyzers: C16, C17 *)

Analyzed == calc.fn = "analyze" /\ calc.out # <<>>

\* C16: for every text of at least 100 characters and every value of the
\* auxiliary inputs (any readability indices, any publication date, today
\* and future dates included, any category) each of the five analyzers
\* returns a normalized_score in [1,10].
C16_AnalyzerRange ==
    (Analyzed /\ ~calc.text.none /\ calc.text.len >= 100) =>
        /\ calc.out[1].normalized_score >= 100
        /\ calc.out[1].normalized_score <= 1000

\* The bundle an analyzer returns for a text it does not analyze: 5.0 and
\* nothing measured; the freshness bundle names the decay rate of the
\* category it was called with, the engagement bundle an unknown language.
NeutralBundle(analyzer, m) ==
    CASE analyzer = "readability" ->
             [flesch_reading_ease |-> 0, smog_index |-> 0, coleman_liau_index |-> 0,
              automated_readability_index |-> 0, complexity_level |-> "Unknown",
              normalized_score |-> 500]
      [] analyzer = "information_density" ->
             [lexical_diversity |-> 0, fact_density |-> 0, concept_density |-> 0,
              key_concepts |-> <<>>, normalized_score |-> 500]
      [] analyzer = "topic_relevance" ->
             [top_topics |-> <<>>, topic_matches |-> <<>>, normalized_score |-> 500]
      [] analyzer = "freshness" ->
             [age_days |-> 0, temporal_references_count |-> 0,
              decay_rate |-> IF m.category = "news" THEN 3
                             ELSE IF m.category = "technology" THEN 90 ELSE 180,
              is_recent |-> FALSE, normalized_score |-> 500]
      [] analyzer = "engagement_potential" ->
             [emotional_score |-> 0, narrative_score |-> 0, visual_score |-> 0,
              interactive_score |-> 0,
              emotion_counts |-> [positive |-> 0, negative |-> 0, surprise |-> 0],
              normalized_score |-> 500, language |-> "unknown"]

\* The bundle reports what was measured in the text.
ReportsMeasured(analyzer, bundle, m) ==
    CASE analyzer = "readability" ->
             /\ bundle.flesch_reading_ease = m.flesch
             /\ bundle.smog_index = m.smog
             /\ bundle.complexity_level # "Unknown"
      [] analyzer = "information_density" ->
             /\ bundle.lexical_diversity = m.lexical_diversity
             /\ bundle.key_concepts = m.key_concepts
      [] analyzer = "topic_relevance" ->
             /\ bundle.topic_matches = m
             /\ Len(bundle.top_topics) = Cardinality(DOMAIN m)
      [] analyzer = "freshness" ->
             bundle.temporal_references_count = m.temporal_references_count
      [] analyzer = "engagement_potential" ->
             /\ bundle.emotion_counts = m.emotion_counts
             /\ bundle.language = m.language

\* C17: each of the five analyzers, given no text, empty text or text whose
\* trimmed length is under 100 characters, returns normalized_score 5.0 with
\* zeroed or empty sub-metrics, whatever the text holds; a text of trimmed
\* length exactly 100 is analyzed.
C17_NeutralDefault ==
    Analyzed =>
        /\ (calc.text.none \/ calc.text.len < 100) =>
               calc.out[1] = NeutralBundle(calc.analyzer, calc.measured)
        /\ (~calc.text.none /\ calc.text.len >= 100) =>
               ReportsMeasured(calc.analyzer, calc.out[1], calc.measured)

C17_Witness ==
    /\ Analyzed
    /\ calc.analyzer = "freshness"
    /\ calc.text.len = 99
    /\ calc.text.pad = 60
    /\ calc.measured.temporal_references_count = 12
    /\ calc.measured.dated
    /\ calc.measured.half_lives = 1
    /\ calc.out[1].normalized_score = 500

---------------------------------------------------------------------------
(* Scoring runs: fetch_and_analyze and the PrioritizationService *)

\* A priority_score that is stored as null. (None, for this field, is the
\* field being absent.)
Null == -2

\* "priority_score" in article and article["priority_score"] is not None
has_score(article) == article.priority_score # None /\ article.priority_score # Null

\* What befalls one article of a run before the scores are aggregated: an
\* exception (a document that does not validate as an Article, a failing
\* analyzer), no extractable content, or the bundles of the five analyzers,
\* of which only normalized_score is followed here.
Bundles ==
    {[information_density  |-> [normalized_score |-> 600],
      readability          |-> [normalized_score |-> 500],
      topic_relevance      |-> [normalized_score |-> 800],
      freshness            |-> [normalized_score |-> 400],
      engagement_potential |-> [normalized_score |-> 500]],
     [information_density  |-> [normalized_score |-> 100],
      readability          |-> [normalized_score |-> 100],
      topic_relevance      |-> [normalized_score |-> 100],
      freshness            |-> [normalized_score |-> 100],
      engagement_potential |-> [normalized_score |-> 100]]}

NoBundles == <<>>

Outcomes ==
    {[kind |-> "error", bundles |-> NoBundles],
     [kind |-> "no_content", bundles |-> NoBundles]} \cup
    {[kind |-> "ok", bundles |-> b] : b \in Bundles}

\* A faulty variant: a bundle without normalized_score counts as 0.
normalized_score_or_zero(article, component) ==
    IF component \in DOMAIN article /\ "normalized_score" \in DOMAIN article[component]
    THEN article[component].normalized_score
    ELSE 0

\* article[component].get("normalized_score", 5.0) if component in article
\* else 5.0
normalized_score_of(article, component) ==
    IF component \in DOMAIN article /\ "normalized_score" \in DOMAIN article[component]
    THEN article[component].normalized_score
    ELSE 500

\* The component_scores dict of an article that carries its bundles.
component_scores_of(article) ==
    [c \in {"quality"} \cup Analyzers |->
        IF c = "quality" THEN 700 ELSE normalized_score_of(article, c)]

\* round(priority_score, 1); the component scores of the runs followed here
\* never give half a tenth.
priority_score_of(component_scores, weights) ==
    CHOOSE p \in priority_scores(component_scores, weights) : TRUE

\* datetime.now(timezone.utc): the time of the run
now == 1

\* update_data of fetch_and_analyze
update_data(bundles) ==
    LET cs == component_scores_of(bundles)
    IN  [priority_score |-> priority_score_of(cs, COMPONENT_WEIGHTS),
         component_scores |-> cs, analyzed_at |-> now] @@ bundles

\* {"$set": fields} on a record: the fields named are written, the others stay.
set_fields(rec, fields) == fields @@ rec

\* A faulty variant: the document is written as it was fetched.
clean_doc_unfiltered(doc) == doc

\* clean_doc = {k: v for k, v in doc.items() if k != 'html_content'}
clean_doc(doc) == [k \in DOMAIN doc \ {"html_content"} |-> doc[k]]

\* clean_doc.update(update_data);
\* collection.update_one({"id": article.id}, {"$set": clean_doc}, upsert=True):
\* the first record of the id gets the fields, and with no record of the id
\* one is inserted that has them.
analysis_write(coll, doc, fields) ==
    LET data == fields @@ clean_doc(doc)
    IN  IF \E i \in DOMAIN coll : coll[i].id = doc.id
        THEN LET first == CHOOSE i \in DOMAIN coll :
                              /\ coll[i].id = doc.id
                              /\ \A j \in DOMAIN coll : coll[j].id = doc.id => i <= j
             IN  [coll EXCEPT ![first] = set_fields(coll[first], data)]
        ELSE Append(coll, data)

\* What the loop of fetch_and_analyze does with one document.
disposition(doc, outcome, skip_ids) ==
    IF doc.id \in skip_ids THEN "skipped"
    ELSE IF outcome.kind = "ok" THEN "written"
    ELSE outcome.kind

\* for doc in documents: ..., from the i-th document on. skip_ids is
\* existing_ids, which is read once, before the loop.
RECURSIVE analyze_loop(_, _, _, _, _)
analyze_loop(coll, documents, outcomes, skip_ids, i) ==
    IF i > Len(documents) THEN [coll |-> coll, log |-> <<>>]
    ELSE LET disp == disposition(documents[i], outcomes[i], skip_ids)
             next == IF disp = "written"
                     THEN analysis_write(coll, documents[i],
                                         update_data(outcomes[i].bundles))
                     ELSE coll
             rest == analyze_loop(next, documents, outcomes, skip_ids, i + 1)
         IN  [coll |-> rest.coll, log |-> <<disp>> \o rest.log]

\* analyzed_count and skipped_count of the closing log line
summary_of(log) ==
    [analyzed_count |-> Cardinality({i \in DOMAIN log : log[i] = "written"}),
     skipped_count  |-> Cardinality({i \in DOMAIN log : log[i] = "skipped"})]

\* fetch_and_analyze on the fetched documents: the collection afterwards,
\* what was done with each document and the counts logged at the end.
\* article_ids = [doc['id'] for doc in documents] is computed before the
\* loop and outside any try: a document without id ends the run there.
fetch_and_analyze(coll, documents, outcomes) ==
    IF \E i \in DOMAIN documents : "id" \notin DOMAIN documents[i]
    THEN [coll |-> coll, log |-> [i \in DOMAIN documents |-> "aborted"],
          raised |-> TRUE, summary |-> <<>>]
    ELSE LET r == analyze_loop(coll, documents, outcomes, existing_ids(coll), 1)
         IN  [coll |-> r.coll, log |-> r.log, raised |-> FALSE,
              summary |-> <<summary_of(r.log)>>]

\* An article of a request: a stored record with its _id, which is here its
\* place in the collection.
read_articles(coll, ids) ==
    [k \in 1..Len(ids) |-> ("_id" :> ids[k]) @@ coll[ids[k]]]

RECURSIVE Arrangements(_)
Arrangements(S) ==
    IF S = {} THEN {<<>>}
    ELSE UNION {{<<x>> \o a : a \in Arrangements(S \ {x})} : x \in S}

\* {"$sample": {"size": n}} on the records at the places P
sample_of(P, n) ==
    UNION {Arrangements(T) : T \in {U \in SUBSET P : Cardinality(U) = Min(n, Cardinality(P))}}

\* get_random_articles_for_prioritization: up to limit records whose
\* priority_score exists, then records without the field to fill up. (Every
\* record has a content field: the fetched documents carry one.)
get_random_articles_for_prioritization(coll, limit) ==
    LET exists == {i \in DOMAIN coll : coll[i].priority_score # None}
    IN  {a \o b : a \in sample_of(exists, limit),
                  b \in sample_of(DOMAIN coll \ exists,
                                  limit - Min(limit, Cardinality(exists)))}

\* Article.model_validate(article_copy): a stored bundle has to carry its
\* normalized_score.
validates(article) ==
    \A c \in Analyzers \cap DOMAIN article : "normalized_score" \in DOMAIN article[c]

\* extract_content_for_articles: the articles that validate and whose content
\* could be extracted. extracted_content stands for the content by holding
\* what the analyzers measure on it.
RECURSIVE extract_content_for_articles(_, _)
extract_content_for_articles(articles, outcomes) ==
    IF articles = <<>> THEN <<>>
    ELSE LET rest == extract_content_for_articles(Tail(articles), Tail(outcomes))
         IN  IF validates(Head(articles)) /\ Head(outcomes).kind = "ok"
             THEN <<("extracted_content" :> Head(outcomes).bundles) @@ Head(articles)>>
                      \o rest
             ELSE rest

\* analyze_readability: a bundle the article already carries is kept.
analyze_readability(articles) ==
    [k \in DOMAIN articles |->
        IF "readability" \in DOMAIN articles[k] THEN articles[k]
        ELSE ("readability" :> articles[k].extracted_content.readability) @@ articles[k]]

\* analyze_information_density, analyze_topic_relevance, analyze_freshness,
\* analyze_engagement_potential: the bundle is computed and set.
analyze_component(articles, component) ==
    [k \in DOMAIN articles |->
        (component :> articles[k].extracted_content[component]) @@ articles[k]]

\* The five analysis steps in the order of process_articles.
analyze_steps(articles) ==
    analyze_component(
        analyze_component(
            analyze_component(
                analyze_component(analyze_readability(articles),
                                  "information_density"),
                "topic_relevance"),
            "freshness"),
        "engagement_potential")

\* calculate_priority_scores
calculate_priority_scores(articles) ==
    [k \in DOMAIN articles |->
        IF has_score(articles[k]) THEN articles[k]
        ELSE LET cs == component_scores_of(articles[k])
             IN  set_fields(articles[k],
                            [priority_score |-> priority_score_of(cs, component_weights),
                             component_scores |-> cs])]

\* update_data of save_prioritization_results
prioritization_fields(article) ==
    [priority_score_updated_at |-> now] @@
    [f \in ({"priority_score", "component_scores"} \cup Analyzers) \cap DOMAIN article |->
        article[f]]

\* save_prioritization_results: update_one({"_id": article_id}, {"$set": update_data})
RECURSIVE save_prioritization_results(_, _)
save_prioritization_results(coll, articles) ==
    IF articles = <<>> THEN coll
    ELSE LET a  == Head(articles)
             at == a["_id"]
         IN  save_prioritization_results(
                 IF at \in DOMAIN coll
                 THEN [coll EXCEPT ![at] = set_fields(coll[at], prioritization_fields(a))]
                 ELSE coll,
                 Tail(articles))

with_scores(articles) == SelectSeq(articles, has_score)

without_scores(articles) == SelectSeq(articles, LAMBDA a : ~has_score(a))

\* The articles without a score after extraction, analysis and scoring.
prioritized_articles(articles, outcomes) ==
    calculate_priority_scores(
        analyze_steps(extract_content_for_articles(without_scores(articles), outcomes)))

\* process_articles
process_articles(articles, outcomes) ==
    IF without_scores(articles) = <<>> THEN articles
    ELSE with_scores(articles) \o prioritized_articles(articles, outcomes)

---------------------------------------------------------------------------
(* The scoring runs as actions *)

MaxSample == 2      \* a request samples 1..MaxSample articles

\* The documents a run of fetch_and_analyze fetches.
RunDocs == {d \in Docs : d.saved_at = 1 /\ d.created_at = 1}

FetchAndAnalyze(documents, outcomes) ==
    /\ Len(outcomes) = Len(documents)
    /\ LET r == fetch_and_analyze(db["later"], documents, outcomes)
       IN  /\ db' = [db EXCEPT !["later"] = r.coll]
           /\ run' = [op |-> "fetch_and_analyze", pre |-> db["later"],
                      documents |-> documents, outcomes |-> outcomes, log |-> r.log,
                      raised |-> r.raised, summary |-> r.summary]
    /\ UNCHANGED <<collections, env, last, fetchVars, ex, calc>>

\* GET /sample: the articles without a score are scored and saved.
GetPrioritizationSample(sample, outcomes) ==
    LET articles    == read_articles(db["later"], sample)
        prioritized == prioritized_articles(articles, outcomes)
    IN  /\ Len(outcomes) = Len(without_scores(articles))
        /\ db' = [db EXCEPT !["later"] = save_prioritization_results(db["later"], prioritized)]
        /\ run' = [op |-> "get_prioritization_sample", pre |-> db["later"],
                   articles |-> articles, scored |-> prioritized,
                   returned |-> with_scores(articles) \o prioritized]
        /\ UNCHANGED <<collections, env, last, fetchVars, ex, calc>>

\* GET /prioritized: process_articles on the sampled articles; nothing is
\* saved.
GetPrioritizedArticles(sample, outcomes) ==
    LET articles == read_articles(db["later"], sample)
    IN  /\ Len(outcomes) = Len(without_scores(articles))
        /\ run' = [op |-> "process_articles", pre |-> db["later"],
                   articles |-> articles,
                   scored |-> IF without_scores(articles) = <<>> THEN <<>>
                              ELSE prioritized_articles(articles, outcomes),
                   returned |-> process_articles(articles, outcomes)]
        /\ UNCHANGED <<dbVars, fetchVars, ex, calc>>

\* calculate_priority_scores on articles as a caller may hand them over.
CalculatePriorityScores(articles) ==
    /\ run' = [op |-> "calculate_priority_scores", pre |-> db["later"],
               articles |-> articles,
               scored |-> SelectSeq(calculate_priority_scores(articles),
                                    LAMBDA a : \E k \in DOMAIN articles :
                                        articles[k]["_id"] = a["_id"] /\ ~has_score(articles[k])),
               returned |-> calculate_priority_scores(articles)]
    /\ UNCHANGED <<dbVars, fetchVars, ex, calc>>

\* A stored record of the given id: never analyzed, with a null score, with
\* the analysis of an earlier run, or with a readability bundle only, which
\* may lack its normalized_score.
StoredRecords(id) ==
    LET doc == [id |-> id, saved_at |-> 1, created_at |-> 1]
        b   == CHOOSE x \in Bundles : x.readability.normalized_score = 500
    IN  {ToRecord(doc),
         [ToRecord(doc) EXCEPT !.priority_score = Null],
         set_fields(ToRecord(doc), update_data(b)),
         set_fields(ToRecord(doc), [readability |-> [normalized_score |-> 640]]),
         set_fields(ToRecord(doc), [readability |-> [complexity_level |-> "Basic"]])}

\* The articles calculate_priority_scores is tried on: with and without a
\* score, with all, some or none of the bundles.
ArticleInputs ==
    LET all == CHOOSE x \in Bundles : x.readability.normalized_score = 500
        bundles == {all,
                    [c \in Analyzers \ {"freshness"} |-> all[c]],
                    [all EXCEPT !.readability = [complexity_level |-> "Basic"]],
                    <<>>}
    IN  {("_id" :> 1) @@ set_fields([id |-> 1, saved_at |-> 1, created_at |-> 1,
                                     priority_score |-> p], b) :
            p \in {None, Null, 300}, b \in bundles}

InitScore ==
    /\ InitClient
    /\ env["later_html"] = "later_html"
    /\ \E n \in 0..MaxId : \E later \in [1..n -> UNION {StoredRecords(id) : id \in 1..MaxId}] :
           /\ \A i \in 1..n : later[i].id = i
           /\ db = [c \in PhysNames |-> IF c = "later" THEN later ELSE <<>>]
    /\ InitIdle
    /\ InitNoRun

NextScore ==
    \/ \E documents \in SeqsUpTo(RunDocs, MaxDocs) :
           \E outcomes \in SeqsUpTo(Outcomes, MaxDocs) : FetchAndAnalyze(documents, outcomes)
    \/ \E limit \in 1..MaxSample :
           \E sample \in get_random_articles_for_prioritization(db["later"], limit) :
               \E outcomes \in SeqsUpTo(Outcomes, MaxSample) :
                   GetPrioritizationSample(sample, outcomes)
    \/ \E limit \in 1..MaxSample :
           \E sample \in get_random_articles_for_prioritization(db["later"], limit) :
               \E outcomes \in SeqsUpTo(Outcomes, MaxSample) :
                   GetPrioritizedArticles(sample, outcomes)
    \/ \E articles \in SeqsUpTo(ArticleInputs, 1) : CalculatePriorityScores(articles)

SpecScore == InitScore /\ [][NextScore]_vars

---------------------------------------------------------------------------
(* Scoring runs: C14, C18 *)

\* The places of the records of the given id.
PlacesOf(coll, id) == {k \in DOMAIN coll : coll[k].id = id}

RangeOf(s) == {s[k] : k \in DOMAIN s}

FirstPlace(coll, id) ==
    CHOOSE k \in PlacesOf(coll, id) : \A j \in PlacesOf(coll, id) : k <= j

\* The record or article carries all six component scores, quality 7.0, and
\* 5.0 for each component of which it has no bundle or a bundle without
\* normalized_score.
Complete(article) ==
    /\ "component_scores" \in DOMAIN article
    /\ DOMAIN article.component_scores = Components
    /\ article.component_scores.quality = 700
    /\ \A c \in Analyzers :
           (c \notin DOMAIN article \/ "normalized_score" \notin DOMAIN article[c]) =>
               article.component_scores[c] = 500

\* C18: every record a scoring run writes and every article it returns with
\* a newly computed priority_score carries component_scores with exactly the
\* keys quality, information_density, readability, topic_relevance, freshness
\* and engagement_potential; quality is 7.0, and a component whose bundle is
\* missing or has no normalized_score is 5.0.
C18_ComponentScoresComplete ==
    /\ run.op = "fetch_and_analyze" =>
           \A i \in DOMAIN run.documents :
               run.log[i] = "written" =>
                   LET id == run.documents[i].id
                   IN  /\ PlacesOf(db["later"], id) # {}
                       /\ has_score(db["later"][FirstPlace(db["later"], id)])
                       /\ Complete(db["later"][FirstPlace(db["later"], id)])
    /\ run.op \in {"get_prioritization_sample", "process_articles",
                   "calculate_priority_scores"} =>
           \A k \in DOMAIN run.scored :
               /\ has_score(run.scored[k])
               /\ Complete(run.scored[k])
               /\ run.scored[k] \in RangeOf(run.returned)
    /\ run.op = "get_prioritization_sample" =>
           \A k \in DOMAIN run.scored :
               LET rec == db["later"][run.scored[k]["_id"]]
               IN  /\ rec.priority_score = run.scored[k].priority_score
                   /\ Complete(rec)

\* calculate_priority_scores has scored an article whose priority_score was
\* null and whose readability bundle has no normalized_score: readability is
\* 5.0, quality 7.0, the score 61.5.
C18_Witness ==
    /\ run.op = "calculate_priority_scores"
    /\ \E k \in DOMAIN run.articles :
           /\ run.articles[k].priority_score = Null
           /\ "readability" \in DOMAIN run.articles[k]
           /\ "normalized_score" \notin DOMAIN run.articles[k].readability
           /\ run.returned[k].component_scores.readability = 500
           /\ run.returned[k].component_scores.quality = 700
           /\ run.returned[k].priority_score = 615

---------------------------------------------------------------------------
(* Retention: get_low_priority_articles *)

\* Times are day numbers. dates_as says how the time fields of the collection
\* are stored: "str", the ISO strings of the API's JSON as the sync inserts
\* them, or "datetime".

\* {field: {"$lt": now - timedelta(days=days)}}: a date is compared with
\* dates only.
date_before(t, today, days, dates_as) ==
    dates_as = "datetime" /\ t # None /\ today - t > days

\* The $or of the $match stage.
archive_candidate(r, today, min_age_days, dates_as) ==
    \/ has_score(r) /\ r.priority_score <= 300
    \/ r.published_date # None /\ r.published_date < today - min_age_days
    \/ "content_extraction_failed" \in DOMAIN r /\ r.content_extraction_failed
    \/ \E c \in {"readability", "information_density", "topic_relevance"} :
           "component_scores" \in DOMAIN r /\ r.component_scores[c] <= 300
    \/ r.content \in {NoText, <<"">>, <<"<html>">>, <<"<body>">>}
    \/ r.word_count # None /\ r.word_count < 300
    \/ date_before(r.saved_at, today, 180, dates_as) /\ r.first_opened_at = None
    \/ date_before(r.last_opened_at, today, 365, dates_as)
    \/ r.reading_progress < 20 /\ r.first_opened_at # None
    \/ r.title = "" \/ r.author = "" \/ r.url = ""
    \/ r.tags = {}

\* {"$sort": {"priority_score": 1}}: a missing score sorts first.
sort_key(r) == IF has_score(r) THEN r.priority_score ELSE None

\* The $match, $sort and $limit stages: the matched records in an order of
\* ascending score, cut to 2 * limit.
low_priority_query(coll, limit, today, min_age_days, dates_as) ==
    LET matched == {i \in DOMAIN coll :
                        archive_candidate(coll[i], today, min_age_days, dates_as)}
        ordered == {a \in Arrangements(matched) :
                        \A i, j \in DOMAIN a :
                            i < j => sort_key(coll[a[i]]) <= sort_key(coll[a[j]])}
    IN  {SubSeq(a, 1, Min(Len(a), 2 * limit)) : a \in ordered}

FormattedFields ==
    {"_id", "id", "url", "title", "author", "tags", "word_count", "created_at",
     "published_date", "content", "reading_progress", "first_opened_at",
     "last_opened_at", "saved_at", "priority_score", "component_scores"}

\* article.get(field, default) of format_prioritized_articles
default_of(field) ==
    CASE field \in {"url", "title", "author"} -> ""
      [] field = "content"                    -> <<"">>
      [] field = "tags"                       -> {}
      [] field = "component_scores"           -> <<>>
      [] OTHER                                -> 0

\* formatted_article of format_prioritized_articles
formatted_article(article) ==
    [f \in FormattedFields |-> IF f \in DOMAIN article THEN article[f] ELSE default_of(f)]

\* list.sort(key=priority_score), which is stable: x comes after the articles
\* that are not above it.
RECURSIVE sort_ascending(_)
sort_ascending(s) ==
    IF s = <<>> THEN <<>>
    ELSE LET sorted == sort_ascending(SubSeq(s, 1, Len(s) - 1))
             x      == s[Len(s)]
             n      == Cardinality({i \in DOMAIN sorted :
                                       sorted[i].priority_score <= x.priority_score})
         IN  SubSeq(sorted, 1, n) \o <<x>> \o SubSeq(sorted, n + 1, Len(sorted))

\* list.sort(key=priority_score, reverse=True), stable as well.
RECURSIVE sort_descending(_)
sort_descending(s) ==
    IF s = <<>> THEN <<>>
    ELSE LET sorted == sort_descending(SubSeq(s, 1, Len(s) - 1))
             x      == s[Len(s)]
             n      == Cardinality({i \in DOMAIN sorted :
                                       sorted[i].priority_score >= x.priority_score})
         IN  SubSeq(sorted, 1, n) \o <<x>> \o SubSeq(sorted, n + 1, Len(sorted))

\* format_prioritized_articles
format_prioritized_articles(articles) ==
    sort_descending([k \in DOMAIN articles |-> formatted_article(articles[k])])

\* isinstance(t, datetime) and (datetime.now(timezone.utc) - t).days > days
days_since_exceed(t, today, days, dates_as) ==
    t # None /\ dates_as = "datetime" /\ today - t > days

\* component_scores.get(component, 10) <= 3.0
low_component(article, component) ==
    component \in DOMAIN article.component_scores
        /\ article.component_scores[component] <= 300

\* The tags in the order the code tests for them.
ReasonTags ==
    <<"low_priority_score", "old_publication_date", "content_extraction_failed",
      "low_readability", "low_information_density", "low_topic_relevance",
      "long_term_neglect", "stale_interest", "abandoned_reading",
      "missing_critical_metadata">>

\* The condition under which a formatted article gets the tag.
reason_holds(tag, article, today, min_age_days, dates_as) ==
    CASE tag = "low_priority_score" -> article.priority_score <= 300
      [] tag = "old_publication_date" ->
             article.published_date # None
                 /\ article.published_date < today - min_age_days
      [] tag = "content_extraction_failed" -> ~Truthy(article.content)
      [] tag = "low_readability" -> low_component(article, "readability")
      [] tag = "low_information_density" -> low_component(article, "information_density")
      [] tag = "low_topic_relevance" -> low_component(article, "topic_relevance")
      [] tag = "long_term_neglect" ->
             article.first_opened_at = None
                 /\ days_since_exceed(article.saved_at, today, 180, dates_as)
      [] tag = "stale_interest" ->
             days_since_exceed(article.last_opened_at, today, 365, dates_as)
      [] tag = "abandoned_reading" ->
             /\ article.reading_progress < 20
             /\ article.first_opened_at # None
             /\ article.last_opened_at # None
             /\ article.first_opened_at # article.last_opened_at
      [] tag = "missing_critical_metadata" ->
             article.title = "" \/ article.author = "" \/ article.url = ""

\* article["archive_reasons"]
archive_reasons(article, today, min_age_days, dates_as) ==
    SelectSeq(ReasonTags,
              LAMBDA tag : reason_holds(tag, article, today, min_age_days, dates_as))

\* GET /low-priority: the matched records without a score are scored and
\* saved; all are formatted, sorted by ascending score and given their
\* reasons; the first limit of them are returned.
GetLowPriorityArticles(limit, today, dates_as, outcomes) ==
    \E found \in low_priority_query(db["later"], limit, today, 1095, dates_as) :
        LET articles    == read_articles(db["later"], found)
            prioritized == prioritized_articles(articles, outcomes)
            all         == IF without_scores(articles) = <<>> THEN with_scores(articles)
                           ELSE with_scores(articles) \o prioritized
            formatted   == sort_ascending(format_prioritized_articles(all))
            tagged      == [k \in DOMAIN formatted |->
                               ("archive_reasons" :>
                                    archive_reasons(formatted[k], today, 1095, dates_as))
                                   @@ formatted[k]]
        IN  /\ Len(outcomes) = Len(without_scores(articles))
            /\ db' = [db EXCEPT !["later"] =
                          save_prioritization_results(db["later"], prioritized)]
            /\ run' = [op |-> "get_low_priority_articles", pre |-> db["later"],
                       today |-> today, dates_as |-> dates_as, limit |-> limit,
                       articles |-> articles, scored |-> prioritized,
                       returned |-> SubSeq(tagged, 1, Min(Len(tagged), limit))]
            /\ UNCHANGED <<collections, env, last, fetchVars, ex, calc>>

MaxRetained == 2    \* the collection of a retention request holds 0..MaxRetained records

\* The days on which a request is made; the articles were saved on day 1.
Days == {101, 401}

\* A record a retention request finds: with a title, an author and a url,
\* no publication date, read to the end if opened at all.
RetentionRecord(id, analysis, content, word_count, tags, opened) ==
    set_fields(set_fields(ToRecord([id |-> id, saved_at |-> 1, created_at |-> 1]),
                          analysis),
               [title |-> "t", author |-> "a", url |-> "u",
                published_date |-> None, reading_progress |-> 100,
                content |-> content, word_count |-> word_count, tags |-> tags,
                first_opened_at |-> opened, last_opened_at |-> opened])

\* The records of the given id the collection may hold: not analyzed or
\* analyzed by an earlier run, and differing from a long, tagged, opened
\* article with content in one respect each.
RetentionRecords(id) ==
    LET good == update_data(CHOOSE x \in Bundles : x.readability.normalized_score = 500)
        poor == update_data(CHOOSE x \in Bundles : x.readability.normalized_score = 100)
    IN  {RetentionRecord(id, <<>>, <<"text">>, 500, {"t"}, None),
         RetentionRecord(id, <<>>, <<"text">>, 100, {"t"}, 1),
         RetentionRecord(id, good, <<"text">>, 500, {"t"}, 1),
         RetentionRecord(id, good, <<"text">>, 100, {"t"}, 1),
         RetentionRecord(id, good, <<"text">>, 500, {}, 1),
         RetentionRecord(id, good, <<"">>, 500, {"t"}, 1),
         RetentionRecord(id, good, <<"text">>, 500, {"t"}, None),
         RetentionRecord(id, poor, <<"text">>, 500, {"t"}, 1)}

InitRetain ==
    /\ InitClient
    /\ env["later_html"] = "later_html"
    /\ \E n \in 0..MaxRetained :
           \E later \in [1..n -> UNION {RetentionRecords(id) : id \in 1..MaxRetained}] :
               /\ \A i \in 1..n : later[i].id = i
               /\ db = [c \in PhysNames |-> IF c = "later" THEN later ELSE <<>>]
    /\ InitIdle
    /\ InitNoRun

NextRetain ==
    \E limit \in 1..MaxSample, today \in Days, dates_as \in {"str", "datetime"} :
        \E outcomes \in SeqsUpTo(Outcomes, MaxRetained) :
            GetLowPriorityArticles(limit, today, dates_as, outcomes)

SpecRetain == InitRetain /\ [][NextRetain]_vars

---------------------------------------------------------------------------
(* Retention: C19, C20 *)

ArchivePredicates ==
    {"priority_score", "publication_date", "component_score", "content",
     "word_count", "never_opened", "not_opened", "abandoned", "metadata", "tags"}

\* The archive-candidate predicate is true of the returned article on the
\* day of the request.
PredicateHolds(p, a, today) ==
    CASE p = "priority_score"   -> a.priority_score <= 300
      [] p = "publication_date" -> a.published_date # None /\ a.published_date < today - 1095
      [] p = "component_score"  ->
             \E c \in DOMAIN a.component_scores \cap
                       {"readability", "information_density", "topic_relevance"} :
                 a.component_scores[c] <= 300
      [] p = "content"          -> ~Truthy(a.content)
      [] p = "word_count"       -> a.word_count < 300
      [] p = "never_opened"     -> a.first_opened_at = None /\ today - a.saved_at > 180
      [] p = "not_opened"       -> a.last_opened_at # None /\ today - a.last_opened_at > 365
      [] p = "abandoned"        ->
             /\ a.reading_progress < 20
             /\ a.first_opened_at # None
             /\ a.last_opened_at # None
             /\ a.first_opened_at # a.last_opened_at
      [] p = "metadata"         -> a.title = "" \/ a.author = "" \/ a.url = ""
      [] p = "tags"             -> a.tags = {}

\* C19: every article the retention request returns has a reason tag for
\* each archive-candidate predicate that is true of it (a score of at most
\* 30.0, an old publication date, a component score of at most 3.0, missing
\* content, fewer than 300 words, saved more than 180 days ago and never
\* opened, not opened for more than 365 days, abandoned reading, a missing
\* title, author or url, no tags): a score of at most 30.0 gives
\* low_priority_score, a last opening more than 365 days ago gives
\* stale_interest, and an article of which no predicate is true has no
\* reasons.
C19_RetentionTagging ==
    run.op = "get_low_priority_articles" =>
        \A k \in DOMAIN run.returned :
            LET a     == run.returned[k]
                true  == {p \in ArchivePredicates : PredicateHolds(p, a, run.today)}
            IN  /\ Len(a.archive_reasons) >= Cardinality(true)
                /\ "priority_score" \in true =>
                       "low_priority_score" \in RangeOf(a.archive_reasons)
                /\ "not_opened" \in true =>
                       "stale_interest" \in RangeOf(a.archive_reasons)
                /\ true = {} => a.archive_reasons = <<>>

\* C20: a retention request writes nothing: the collection is the same
\* after the request as before it, also when matched records have no
\* priority score yet.
C20_RetentionReadOnly ==
    run.op = "get_low_priority_articles" => db["later"] = run.pre

---------------------------------------------------------------------------
(* Retention: C21 *)

MaxListed == 3      \* the collection of an ordering request holds 0..MaxListed records

\* The records an ordering request finds, all of fewer than 300 words: not
\* analyzed, or analyzed by an earlier run with a high or a low score.
ListedRecords(id) ==
    {RetentionRecord(id, <<>>, <<"text">>, 100, {"t"}, 1)} \cup
    {RetentionRecord(id, update_data(b), <<"text">>, 100, {"t"}, 1) : b \in Bundles}

InitRetainOrder ==
    /\ InitClient
    /\ env["later_html"] = "later_html"
    /\ \E n \in 0..MaxListed :
           \E later \in [1..n -> UNION {ListedRecords(id) : id \in 1..MaxListed}] :
               /\ \A i \in 1..n : later[i].id = i
               /\ db = [c \in PhysNames |-> IF c = "later" THEN later ELSE <<>>]
    /\ InitIdle
    /\ InitNoRun

\* The requests are made on day 101 on a collection whose time fields are
\* datetimes; no extraction raises.
NextRetainOrder ==
    \E limit \in 1..MaxSample :
        \E outcomes \in SeqsUpTo({o \in Outcomes : o.kind # "error"}, MaxListed) :
            GetLowPriorityArticles(limit, 101, "datetime", outcomes)

SpecRetainOrder == InitRetainOrder /\ [][NextRetainOrder]_vars

\* C21: the list a retention request returns is in ascending order of
\* priority score and has at most limit entries, and when it is full no
\* matching record of the collection that is not in the list has a lower
\* priority score than an article of the list.
C21_RetentionOrdering ==
    run.op = "get_low_priority_articles" =>
        /\ \A i, j \in DOMAIN run.returned :
               i < j => run.returned[i].priority_score <= run.returned[j].priority_score
        /\ Len(run.returned) <= run.limit
        /\ Len(run.returned) = run.limit =>
               \A k \in DOMAIN run.pre :
                   (/\ archive_candidate(run.pre[k], run.today, 1095, run.dates_as)
                    /\ has_score(run.pre[k])
                    /\ \A j \in DOMAIN run.returned : run.returned[j]["_id"] # k) =>
                       \A j \in DOMAIN run.returned :
                           run.returned[j].priority_score <= run.pre[k].priority_score

---------------------------------------------------------------------------
(* Scoring runs with malformed documents and failing writes: C22, C25 *)

\* The documents of such a run: well-formed ones and ones without id.
BatchDocs == RunDocs \cup {[saved_at |-> 1, created_at |-> 1]}

\* update_one raises for the article.
WriteFailure == [kind |-> "write_error", bundles |-> NoBundles]

BatchOutcomes ==
    {WriteFailure} \cup
    {o \in Outcomes : o.kind # "ok" \/ o.bundles.readability.normalized_score = 500}

NextBatch ==
    \E documents \in SeqsUpTo(BatchDocs, MaxDocs) :
        \E outcomes \in SeqsUpTo(BatchOutcomes, MaxDocs) :
            FetchAndAnalyze(documents, outcomes)

SpecBatch == InitScore /\ [][NextBatch]_vars

\* C22: in a run of fetch_and_analyze no malformed document and no failed
\* write ends the run: the run completes with its counts, every document of
\* the list is dealt with, and every well-formed document that is not yet
\* analyzed, whose content is extracted and whose write succeeds is written.
C22_BatchRobustness ==
    run.op = "fetch_and_analyze" =>
        /\ ~run.raised
        /\ run.summary # <<>>
        /\ \A i \in DOMAIN run.documents :
               /\ run.log[i] \in {"skipped", "written", "no_content", "error",
                                  "write_error"}
               /\ ("id" \in DOMAIN run.documents[i]
                      /\ run.documents[i].id \notin existing_ids(run.pre)
                      /\ run.outcomes[i].kind = "ok") => run.log[i] = "written"

\* C25: when the content of an article cannot be extracted in a run of
\* fetch_and_analyze, no analysis is written for the article, the run goes on
\* with the next document, and the article is counted: in a run in which no
\* document raises, the counts of the summary add up to the number of
\* fetched documents.
C25_ExtractionFailureAccounting ==
    (run.op = "fetch_and_analyze" /\ ~run.raised) =>
        /\ \A i \in DOMAIN run.documents :
               run.log[i] = "no_content" =>
                   /\ \A k \in PlacesOf(db["later"], run.documents[i].id) :
                          has_score(db["later"][k]) =>
                              \/ k \in DOMAIN run.pre /\ run.pre[k] = db["later"][k]
                              \/ \E j \in DOMAIN run.documents :
                                     /\ run.documents[j].id = run.documents[i].id
                                     /\ run.log[j] = "written"
                   /\ \A j \in DOMAIN run.documents :
                          (j > i /\ run.outcomes[j].kind = "ok") =>
                              run.log[j] \in {"written", "skipped"}
        /\ (\A i \in DOMAIN run.documents :
                run.log[i] \in {"written", "skipped", "no_content"}) =>
               run.summary[1].analyzed_count + run.summary[1].skipped_count
                   = Len(run.documents)

---------------------------------------------------------------------------
(* Sync calls in which a database write raises: C23 *)

\* sync_documents when insert_many or delete_many raises. An insert_many that
\* raises has inserted the documents before the failing one; when
\* delete_many raises the inserts are made and nothing is deleted.
sync_documents_interrupted(coll, documents, failed, done) ==
    LET ins == to_insert(IdSet(coll), documents)
    IN  IF failed = "insert_many" THEN insert_many(coll, SubSeq(ins, 1, done))
        ELSE IF Len(ins) > 0 THEN insert_many(coll, ins) ELSE coll

\* sync_documents_with_html when the update_one of the k-th document raises.
sync_documents_with_html_interrupted(coll, documents, k) ==
    upsert_all(coll, SubSeq(documents, 1, k - 1))

\* mongo_client.sync_documents(location, documents) raising in a write
SyncDocumentsRaises(location, documents, failed, done) ==
    LET phys == collections[location]
        ins  == to_insert(IdSet(db[phys]), documents)
        del  == to_delete(IdSet(db[phys]), IdSet(documents))
    IN  /\ \/ failed = "insert_many" /\ done < Len(ins)
           \/ failed = "delete_many" /\ done = Len(ins) /\ del # {}
        /\ db' = [db EXCEPT ![phys] =
                      sync_documents_interrupted(db[phys], documents, failed, done)]
        /\ last' = [NoCall EXCEPT !.op = "sync_documents", !.name = location,
                        !.coll = phys, !.docs = documents, !.err = TRUE,
                        !.pre = db[phys]]
        /\ UNCHANGED <<collections, env>>
        /\ UNCHANGED <<fetchVars, calcVars>>

\* mongo_client.sync_documents_with_html(location, documents) raising in the
\* write of the k-th document
SyncDocumentsWithHtmlRaises(location, documents, k) ==
    LET name == HtmlName(location)
        reg  == IF name \in DOMAIN collections THEN collections
                ELSE collections @@ (name :> Getenv(name))
        phys == reg[name]
    IN  /\ k \in DOMAIN documents
        /\ collections' = reg
        /\ db' = [db EXCEPT ![phys] =
                      sync_documents_with_html_interrupted(db[phys], documents, k)]
        /\ last' = [NoCall EXCEPT !.op = "sync_documents_with_html", !.name = location,
                        !.coll = phys, !.docs = documents, !.err = TRUE,
                        !.pre = db[phys]]
        /\ UNCHANGED env
        /\ UNCHANGED <<fetchVars, calcVars>>

\* The collections a failing call starts from: the records of distinct
\* fetched documents.
StartColls ==
    {[i \in DOMAIN ids |-> ToRecord([id |-> ids[i], saved_at |-> 1, created_at |-> 1])] :
        ids \in UNION {Arrangements(S) : S \in SUBSET (1..MaxId)}}

InitSyncRaises ==
    /\ InitClient
    /\ env["later_html"] = "later_html"
    /\ \E later \in StartColls, later_html \in StartColls :
           db = [c \in PhysNames |-> IF c = "later" THEN later
                                     ELSE IF c = "later_html" THEN later_html
                                     ELSE <<>>]
    /\ InitIdle
    /\ InitNoRun

NextSyncRaises ==
    \/ \E documents \in DocLists, failed \in {"insert_many", "delete_many"},
          done \in 0..MaxDocs :
           SyncDocumentsRaises("later", documents, failed, done)
    \/ \E documents \in DocLists, k \in 1..MaxDocs :
           SyncDocumentsWithHtmlRaises("later", documents, k)

SpecSyncRaises == InitSyncRaises /\ [][NextSyncRaises]_vars

\* C23: when a write raises during a sync call, the collection holds either
\* everything the call was to write (all inserts and all deletes, or all
\* upserts) or nothing of it.
C23_NoPartialSync ==
    (last.err /\ last.op \in {"sync_documents", "sync_documents_with_html"}) =>
        \/ db[last.coll] = last.pre
        \/ last.op = "sync_documents"
               /\ db[last.coll] = sync_documents(last.pre, last.docs).coll
        \/ last.op = "sync_documents_with_html"
               /\ db[last.coll] = sync_documents_with_html(last.pre, last.docs).coll

---------------------------------------------------------------------------
(* Scoring runs on documents fetched with their HTML: C24 *)

\* The documents fetch_reader_document_list(with_html_content=True) returns:
\* with an html_content, which may be null.
HtmlDocs ==
    {("html_content" :> h) @@ d : d \in RunDocs, h \in {NoText, <<"<p>text</p>">>}}

\* The outcomes of these runs: the content is extracted and analyzed, or
\* there is none.
HtmlOutcomes ==
    {o \in Outcomes : o.kind = "no_content"
                         \/ (o.kind = "ok" /\ o.bundles.readability.normalized_score = 500)}

NextScoreHtml ==
    \/ \E documents \in SeqsUpTo(HtmlDocs, MaxDocs) :
           \E outcomes \in SeqsUpTo(HtmlOutcomes, MaxDocs) :
               FetchAndAnalyze(documents, outcomes)
    \/ \E limit \in 1..MaxSample :
           \E sample \in get_random_articles_for_prioritization(db["later"], limit) :
               \E outcomes \in SeqsUpTo(HtmlOutcomes, MaxSample) :
                   GetPrioritizationSample(sample, outcomes)

SpecScoreHtml == InitScore /\ [][NextScoreHtml]_vars

\* The records the last run wrote.
WrittenPlaces ==
    IF run.op = "fetch_and_analyze"
    THEN {FirstPlace(db["later"], run.documents[i].id) :
              i \in {j \in DOMAIN run.documents : run.log[j] = "written"}}
    ELSE IF run.op = "get_prioritization_sample"
    THEN {run.scored[k]["_id"] : k \in DOMAIN run.scored}
    ELSE {}

\* The record has no html_content and has a priority_score, its
\* component_scores and the five bundles.
AnalysisWithoutHtml(rec) ==
    /\ "html_content" \notin DOMAIN rec
    /\ has_score(rec)
    /\ {"component_scores"} \cup Analyzers \subseteq DOMAIN rec

\* C24 as stated: after a scoring run no record the run wrote carries an
\* html_content, also when the fetched document carried one; the record
\* carries priority_score, component_scores, the five bundles and
\* analyzed_at.
C24_NoHtmlPersisted_Original ==
    \A k \in WrittenPlaces :
        AnalysisWithoutHtml(db["later"][k]) /\ "analyzed_at" \in DOMAIN db["later"][k]

\* C24, amended: after a scoring run no record the run wrote carries an
\* html_content, also when the fetched document carried one; the record
\* carries priority_score, component_scores and the five bundles, and with
\* them analyzed_at when fetch_and_analyze wrote it and
\* priority_score_updated_at when save_prioritization_results wrote it.
C24_NoHtmlPersisted ==
    \A k \in WrittenPlaces :
        /\ AnalysisWithoutHtml(db["later"][k])
        /\ run.op = "fetch_and_analyze" => "analyzed_at" \in DOMAIN db["later"][k]
        /\ run.op = "get_prioritization_sample" =>
               "priority_score_updated_at" \in DOMAIN db["later"][k]

\* fetch_and_analyze has written the analysis of a document that was fetched
\* with an html_content.
C24_Witness ==
    /\ run.op = "fetch_and_analyze"
    /\ \E i \in DOMAIN run.documents :
           /\ run.log[i] = "written"
           /\ Truthy(run.documents[i].html_content)
           /\ run.documents[i].id \notin IdSet(run.pre)
           /\ "analyzed_at" \in DOMAIN db["later"][FirstPlace(db["later"], run.documents[i].id)]

---------------------------------------------------------------------------
(* Freshness: C26 *)

\* 1 + 9 * (0.8 * decay + 0.2 * min(1, 0.1 * count)) in hundredths, for an
\* age of half_lives half-lives.
DecayScores(half_lives, count) ==
    {100 + 18 * Min(10, count) + x :
        x \in IF half_lives >= 0 THEN round_div(720, Pow2(half_lives))
              ELSE {720 * Pow2(-half_lives)}}

\* C26: on a text that is long enough the freshness analyzer gives the score
\* 5 + min(3, 0.3 * count), which lies in [5,8], exactly when it is given no
\* publication date; given a publication date, the current day included, it
\* gives 1 + 9 * (0.8 * decay + 0.2 * min(1, 0.1 * count)) with the half-life
\* of the category, which is 180 for a category it does not know.
C26_FreshnessBranch ==
    (calc.fn = "analyze" /\ calc.analyzer = "freshness" /\ calc.out # <<>>
        /\ ~too_short(calc.text)) =>
        LET m == calc.measured
            n == calc.out[1].normalized_score
        IN  /\ ~m.dated =>
                   /\ n = 500 + Min(300, 30 * m.temporal_references_count)
                   /\ n >= 500 /\ n <= 800
            /\ m.dated => n \in DecayScores(m.half_lives, m.temporal_references_count)
            /\ m.category \notin {"news", "technology", "science", "evergreen", "reference"}
                   => calc.out[1].decay_rate = 180

---------------------------------------------------------------------------
(* Topic keywords: C27 *)

MaxWords == 4       \* a tokenized text holds 0..MaxWords words

\* A Python str is a sequence of characters.
machine == <<"m", "a", "c", "h", "i", "n", "e">>
learning == <<"l", "e", "a", "r", "n", "i", "n", "g">>
learnings == <<"l", "e", "a", "r", "n", "i", "n", "g", "s">>
data == <<"d", "a", "t", "a">>
the == <<"t", "h", "e">>

\* The lowercased words re.findall gives for a text.
TokenWords == {machine, learning, learnings, data, the}

\* TopicRelevanceAnalyzer.stop_words
stop_words == {the}

\* TopicRelevanceAnalyzer.topics["technology"]["keywords"]: "data" and
\* "machine learning"
technology_keywords ==
    {data, machine \o <<" ">> \o learning}

\* analyze: the words that are no stop words and longer than two characters
filtered_words(words) ==
    SelectSeq(words, LAMBDA word : word \notin stop_words /\ Len(word) > 2)

\* The distinct words of a sequence in the order of their first occurrence:
\* the key order of a Counter.
RECURSIVE first_seen(_)
first_seen(words) ==
    IF words = <<>> THEN <<>>
    ELSE LET n == Len(words)
             seen == first_seen(SubSeq(words, 1, n - 1))
         IN  IF \E i \in 1..Len(seen) : seen[i] = words[n]
             THEN seen
             ELSE Append(seen, words[n])

\* Counter(filtered_words)
Counter(words) ==
    [keys |-> first_seen(words),
     count |-> [w \in {words[i] : i \in 1..Len(words)} |->
                   Cardinality({i \in 1..Len(words) : words[i] = w})]]

\* word_freq[keyword]: 0 for a word that was not counted
count_of(word_freq, word) ==
    IF word \in DOMAIN word_freq.count THEN word_freq.count[word] ELSE 0

\* Counter.elements(): each key repeated as often as it was counted, the keys
\* in the order of their first occurrence.
RECURSIVE elements_upto(_, _)
elements_upto(word_freq, k) ==
    IF k = 0 THEN <<>>
    ELSE elements_upto(word_freq, k - 1)
             \o [i \in 1..word_freq.count[word_freq.keys[k]] |-> word_freq.keys[k]]

elements(word_freq) == elements_upto(word_freq, Len(word_freq.keys))

\* " ".join(words)
RECURSIVE join(_)
join(words) ==
    IF words = <<>> THEN <<>>
    ELSE IF Len(words) = 1 THEN words[1]
    ELSE join(SubSeq(words, 1, Len(words) - 1)) \o <<" ">> \o words[Len(words)]

\* needle in haystack, of two strings
contains(haystack, needle) ==
    \E i \in 0..(Len(haystack) - Len(needle)) :
        SubSeq(haystack, i + 1, i + Len(needle)) = needle

\* What one keyword adds to match_count in _calculate_topic_matches.
keyword_matches(word_freq, keyword) ==
    IF \E i \in 1..Len(keyword) : keyword[i] = " "
    THEN IF contains(join(elements(word_freq)), keyword) THEN 5 ELSE 0
    ELSE count_of(word_freq, keyword)

\* sum(word_freq.values())
total_words(word_freq) == Len(elements(word_freq))

\* TopicRelevanceAnalyzer._calculate_topic_matches for the topic
\* "technology" (weight 1.0): the match score in hundredths, kept when it is
\* positive.
calculate_topic_matches(word_freq) ==
    LET added == [k \in technology_keywords |-> keyword_matches(word_freq, k)]
        match_count == SumOver(added, technology_keywords)
    IN  IF total_words(word_freq) = 0
        THEN {[added |-> added, topic_matches |-> <<>>]}
        ELSE {[added |-> added,
               topic_matches |-> IF score > 0 THEN [technology |-> score] ELSE <<>>] :
                 score \in round_div(match_count * 10000, total_words(word_freq))}

\* analyze, from the tokens to the topic matches
CalculateTopicMatches ==
    /\ calc.fn = "_calculate_topic_matches"
    /\ calc.out = <<>>
    /\ LET word_freq == Counter(filtered_words(calc.words))
       IN  \E result \in calculate_topic_matches(word_freq) :
               calc' = [calc EXCEPT !.out = <<result>>]
    /\ UNCHANGED <<dbVars, fetchVars, ex, run>>

InitTopics ==
    /\ InitClient
    /\ env["later_html"] = "later_html"
    /\ db = [c \in PhysNames |-> <<>>]
    /\ InitIdle
    /\ ex = [pc |-> "idle"]
    /\ run = [op |-> "none"]
    /\ \E n \in 0..MaxWords : \E words \in [1..n -> TokenWords] :
           calc = [fn |-> "_calculate_topic_matches", words |-> words, out |-> <<>>]

SpecTopics == InitTopics /\ [][CalculateTopicMatches]_vars

\* The words of a keyword.
RECURSIVE split(_)
split(keyword) ==
    IF \A i \in 1..Len(keyword) : keyword[i] # " " THEN <<keyword>>
    ELSE LET i == CHOOSE j \in 1..Len(keyword) :
                      keyword[j] = " " /\ \A l \in 1..(j - 1) : keyword[l] # " "
         IN  <<SubSeq(keyword, 1, i - 1)>> \o split(SubSeq(keyword, i + 1, Len(keyword)))

\* The words of a sequence occur consecutively and in order in another.
Consecutive(words, stream) ==
    \E i \in 0..(Len(stream) - Len(words)) :
        SubSeq(stream, i + 1, i + Len(words)) = words

\* C27: a keyword of several words adds 5 to the match count of its topic
\* exactly when its words occur consecutively and in order in the filtered
\* words of the text, taken in their original order, and adds nothing
\* otherwise; a keyword of one word adds the number of its occurrences.
C27_MultiWordMatching ==
    (calc.fn = "_calculate_topic_matches" /\ calc.out # <<>>) =>
        \A keyword \in technology_keywords :
            LET stream == filtered_words(calc.words)
                added == calc.out[1].added[keyword]
            IN  IF Len(split(keyword)) > 1
                THEN added = (IF Consecutive(split(keyword), stream) THEN 5 ELSE 0)
                ELSE added = Cardinality({i \in 1..Len(stream) : stream[i] = keyword})

---------------------------------------------------------------------------
(* html_fetch: the whole run, C28 *)

\* The lookup get_document_count, get_collection_stats and
\* trim_collection_to_size make, with the names registered at that moment:
\* a registered name is used as it stands, another one is looked up in the
\* environment.
resolve(registered, collection_name) ==
    IF collection_name \in DOMAIN registered THEN collection_name
    ELSE Getenv(collection_name)

\* MongoDBClient.__init__: the names a new client has registered
new_client == [n \in {"later", "archive"} |-> Getenv(n)]

\* sync_documents_with_html: the names registered after the call
registered_by_sync(registered, location) ==
    IF HtmlName(location) \in DOMAIN registered THEN registered
    ELSE registered @@ (HtmlName(location) :> Getenv(HtmlName(location)))

\* fetch_html_content: a new client counts 'later_html', upserts the fetched
\* documents of 'later', trims 'later_html' to max_documents and counts
\* 'later_html' again.
FetchHtmlContent(documents, max_documents, err) ==
    LET counted_first == resolve(new_client, "later_html")
        initial_count == Len(db[counted_first])
        registered    == registered_by_sync(new_client, "later")
        written       == registered[HtmlName("later")]
        synced        == sync_documents_with_html(db[written], documents)
        db_synced     == [db EXCEPT ![written] = synced.coll]
        trimmed       == resolve(registered, "later_html")
        counted_last  == resolve(registered, "later_html")
    IN  \E r \in trim_collection_to_size(db_synced[trimmed], max_documents, err) :
            /\ db' = [db_synced EXCEPT ![trimmed] = r.coll]
            /\ collections' = registered
            /\ run' = [op |-> "fetch_html_content", documents |-> documents,
                       max_documents |-> max_documents,
                       counted_first |-> counted_first,
                       initial_count |-> initial_count,
                       written |-> written, added |-> synced.ret[1],
                       trimmed |-> trimmed, trimmed_count |-> r.ret[1],
                       counted_last |-> counted_last,
                       final_count |-> Len(r.coll)]
            /\ UNCHANGED <<env, last>>
            /\ UNCHANGED <<fetchVars, ex, calc>>

NextHtmlRun ==
    \E documents \in DocLists, max_documents \in 0..MaxCap, err \in BOOLEAN :
        FetchHtmlContent(documents, max_documents, err)

SpecHtmlRun == Init /\ [][NextHtmlRun]_vars

\* C28: after a run of html_fetch the collection its upsert-sync wrote to
\* holds at most max_documents documents, whatever name is configured for
\* the HTML collection, and the count before the sync, the sync, the trim and
\* the count after it all worked on that one collection.
C28_HtmlCapAcrossRun ==
    run.op = "fetch_html_content" =>
        /\ Len(db[run.written]) <= run.max_documents
        /\ run.trimmed = run.written
        /\ run.counted_first = run.written
        /\ run.counted_last = run.written

---------------------------------------------------------------------------
(* main: fetch, then replace-sync, C29 *)

MaxStored == 3      \* the records persisted before a run have ids 1..MaxStored

\* main, the body of its loop for one location once the fetch has returned:
\* added, removed = mongo_client.sync_documents(location, documents)
MainSync ==
    /\ pc = "done"
    /\ run.op = "none"
    /\ LET phys == collections[fetch.location]
           r    == sync_documents(db[phys], full_data)
       IN  /\ db' = [db EXCEPT ![phys] = r.coll]
           /\ last' = [NoCall EXCEPT !.op = "sync_documents", !.name = fetch.location,
                           !.coll = phys, !.docs = full_data, !.ret = r.ret,
                           !.pre = db[phys]]
           /\ run' = [op |-> "main", location |-> fetch.location,
                      documents |-> full_data, added |-> r.ret[1],
                      removed |-> r.ret[2]]
    /\ UNCHANGED <<collections, env>>
    /\ UNCHANGED <<fetchVars, ex, calc>>

\* The records an earlier run left in the collection of the location.
StoredColls ==
    {SelectSeq([i \in 1..MaxStored |-> ToRecord(RemoteDoc(i))], LAMBDA r : r.id \in S) :
        S \in SUBSET (1..MaxStored)}

\* documents = readwise_client.fetch_reader_document_list(location): no
\* limit, no HTML content.
InitMain ==
    /\ InitClient
    /\ env["later_html"] = "later_html"
    /\ \E lens \in PageLens : pages = MakePages(lens)
    /\ \E location \in {"later", "archive"} :
           /\ fetch = [location |-> location, limit |-> NoLimit,
                       with_html_content |-> FALSE]
           /\ \E stored \in StoredColls :
                  db = [c \in PhysNames |-> IF c = collections[location]
                                            THEN stored ELSE <<>>]
    /\ pc = "loop"
    /\ full_data = <<>>
    /\ next_page_cursor = None
    /\ requests = <<>>
    /\ slept = <<>>
    /\ InitNoRun

NextMain ==
    \/ \E throttled, throttledAgain \in BOOLEAN, retry_after \in 0..MaxWait :
           FetchPage(throttled, throttledAgain, retry_after)
    \/ MainSync

SpecMain == InitMain /\ [][NextMain]_vars

\* The ids of the remote list of the location.
RemoteIds == IdSet(Flatten(pages))

\* C29: after main has fetched a location and synced it, every record that
\* was persisted before and whose id is still in the remote list of the
\* location is still persisted, also when a page request and its one retry
\* were both answered without results.
C29_NoDeletionFromIncompleteFetch ==
    run.op = "main" =>
        \A i \in DOMAIN last.pre :
            last.pre[i].id \in RemoteIds => last.pre[i].id \in IdSet(db[last.coll])

---------------------------------------------------------------------------
(* The two scoring pipelines on one article: C30 *)

\* top_topics of an article without a matched topic
NoTopics == <<>>

\* The mapping of the top topic to a freshness category that both pipelines
\* carry; a topic it does not name leaves the category as it is.
category_of_topic(top_topic, category) ==
    CASE top_topic = "technology" -> "technology"
      [] top_topic = "science" -> "science"
      [] top_topic \in {"politics", "business", "finance"} -> "news"
      [] top_topic \in {"education", "health"} -> "evergreen"
      [] OTHER -> category

\* fetch_and_analyze: the category field, "default" when it is empty, is
\* replaced by the category of the top topic when there is a top topic.
batch_category(article, topics) ==
    LET category == IF article.category # "" THEN article.category ELSE "default"
    IN  IF topics # NoTopics THEN category_of_topic(topics[1], category)
        ELSE category

\* PrioritizationService.analyze_freshness: the category field when it is
\* not empty, the category of the top topic otherwise.
service_category(article, topics) ==
    IF article.category # "" THEN article.category
    ELSE IF topics # NoTopics THEN category_of_topic(topics[1], "default")
    ELSE "default"

\* Both pipelines: a published_date that is a millisecond timestamp becomes
\* a date, a string is left out. (The datetime branch of the service is not
\* followed: no record of these collections carries one.)
has_published_date(article) == article.published = "int"

\* The freshness bundle for the article's date and a category. The ages
\* followed are whole numbers of half-lives of the categories followed.
freshness_of(text, article, temporal_references_count, category) ==
    CHOOSE bundle \in
        freshness_analyze(text,
            [dated |-> has_published_date(article),
             half_lives |-> article.age_days \div decay_rate(category),
             temporal_references_count |-> temporal_references_count,
             category |-> category]) : TRUE

\* The scores of one pipeline: the four analyzers that are given the text
\* alone (and the title) measure the same in both; freshness is given the
\* category the pipeline chose.
pipeline_scores(text, article, measured, category, weights) ==
    LET freshness == freshness_of(text, article, measured.temporal_references_count,
                                  category)
        component_scores ==
            [c \in {"quality"} \cup Analyzers |->
                IF c = "quality" THEN 700
                ELSE IF c = "freshness" THEN freshness.normalized_score
                ELSE measured.normalized_score[c]]
    IN  [category |-> category, freshness |-> freshness,
         component_scores |-> component_scores,
         priority_score |-> priority_score_of(component_scores, weights)]

\* One article with its extracted text goes through fetch_and_analyze and
\* through the analyze_* steps and calculate_priority_scores of the service.
ScoreInBothPipelines ==
    /\ calc.fn = "pipelines"
    /\ calc.out = <<>>
    /\ LET topics == calc.measured.top_topics
       IN  calc' = [calc EXCEPT !.out =
               <<[batch |-> pipeline_scores(calc.text, calc.article, calc.measured,
                                            batch_category(calc.article, topics),
                                            COMPONENT_WEIGHTS),
                  service |-> pipeline_scores(calc.text, calc.article, calc.measured,
                                              service_category(calc.article, topics),
                                              component_weights)]>>]
    /\ UNCHANGED <<dbVars, fetchVars, ex, run>>

\* The articles: with or without a category, without a published_date, with
\* one that is a string, or with a timestamp 0, 180 or 360 days back.
PipelineArticles ==
    {a \in [category : {"", "article"}, published : {"none", "str", "int"},
            age_days : {0, 180, 360}] :
        a.published # "int" => a.age_days = 0}

\* What the analyzers measure in the text: the top topics, the temporal
\* references and the normalized scores of the four other analyzers.
PipelineMeasures ==
    [top_topics : {NoTopics, <<"technology">>, <<"zdrowie">>},
     temporal_references_count : {0, 5},
     normalized_score :
         {[readability |-> 600, information_density |-> 500, topic_relevance |-> 800,
           engagement_potential |-> 400],
          [readability |-> 100, information_density |-> 100, topic_relevance |-> 100,
           engagement_potential |-> 100]}]

InitPipelines ==
    /\ InitClient
    /\ env["later_html"] = "later_html"
    /\ db = [c \in PhysNames |-> <<>>]
    /\ InitIdle
    /\ ex = [pc |-> "idle"]
    /\ run = [op |-> "none"]
    /\ \E article \in PipelineArticles, measured \in PipelineMeasures :
       \E text \in {t \in Texts : ~t.none /\ t.len > 0 /\ t.pad = 0} :
           calc = [fn |-> "pipelines", article |-> article, text |-> text,
                   measured |-> measured, out |-> <<>>]

SpecPipelines == InitPipelines /\ [][ScoreInBothPipelines]_vars

\* C30: for one article and one extracted text, fetch_and_analyze and the
\* service give the same component scores and the same priority score, and
\* when the article has a category and a top topic they give the freshness
\* analyzer the same category.
C30_PipelineAgreement ==
    (calc.fn = "pipelines" /\ calc.out # <<>>) =>
        LET batch   == calc.out[1].batch
            service == calc.out[1].service
        IN  /\ batch.component_scores = service.component_scores
            /\ batch.priority_score = service.priority_score
            /\ (calc.article.category # "" /\ calc.measured.top_topics # NoTopics)
                   => batch.category = service.category

====
